---- MODULE Spec2Model ----
(***************************************************************************)
(* Authentication and request-authorization pipeline of the car price      *)
(* prediction API: password hasher and token service                       *)
(* (app/core/security.py), API-key gate and authenticator                  *)
(* (app/core/dependencies.py), and the routes that use them.               *)
(*                                                                         *)
(* Text values (passwords, hashes, header values, API keys) are sequences  *)
(* of string atoms, so that length, strip, split and lower-casing are      *)
(* computed as Python computes them.                                       *)
(***************************************************************************)
EXTENDS Integers, Sequences, FiniteSets, TLC

VARIABLES
    pwStored,   \* the hash last returned by hash_password, and what it was made of
    pwCall,     \* the last call of the password hasher and what it returned
    now,        \* the wall clock, in ticks since the epoch
    tok,        \* the token string in a client's hands
    tokMeta,    \* where tok came from: issue time, ttl, claims given, tampering
    tkCall,     \* the call of the token service made at this instant, and its result
    apiKey,     \* settings.API_KEY, read from the environment at start-up
    gateCall,   \* the last call of the API-key gate and its outcome
    extCall,    \* the last call of get_token_from_header and its outcome
    users,      \* the users table, in id order
    resp,       \* the response to the request served at this instant
    predictions,\* the predictions table, in id order
    cache,      \* the prediction cache: the entries set and not yet evicted
    pending     \* the requests that have checked and not yet committed

pwVars == <<pwStored, pwCall>>
tkVars == <<now, tok, tokMeta, tkCall>>
gateVars == <<apiKey, gateCall>>
storeVars == <<predictions, cache>>
vars == <<pwStored, pwCall, now, tok, tokMeta, tkCall, apiKey, gateCall,
          extCall, users, resp, predictions, cache, pending>>

(***************************************************************************)
(* Text as Python sees it: a str is a sequence of atoms; in header values  *)
(* and API keys every atom is one character.                               *)
(***************************************************************************)
NoStr == <<>>

Whitespace == {" ", "\t"}

RECURSIVE LStrip(_)
LStrip(str) ==
    IF str # <<>> /\ Head(str) \in Whitespace THEN LStrip(Tail(str)) ELSE str

RECURSIVE RStrip(_)
RStrip(str) ==
    IF str # <<>> /\ str[Len(str)] \in Whitespace
    THEN RStrip(SubSeq(str, 1, Len(str) - 1))
    ELSE str

\* str.strip()
Strip_LeadingOnly(str) == LStrip(str)

Strip(str) == RStrip(LStrip(str))

\* str.split(): the maximal runs of non-whitespace characters, in order
RECURSIVE SplitAcc(_, _, _)
SplitAcc(str, cur, parts) ==
    IF str = <<>>
    THEN IF cur = <<>> THEN parts ELSE Append(parts, cur)
    ELSE IF Head(str) \in Whitespace
    THEN SplitAcc(Tail(str), <<>>,
                  IF cur = <<>> THEN parts ELSE Append(parts, cur))
    ELSE SplitAcc(Tail(str), Append(cur, Head(str)), parts)

Split(str) == SplitAcc(str, <<>>, <<>>)

\* str.lower(), on the letters the headers below are written with
LowerChar(c) ==
    CASE c = "B" -> "b"
      [] c = "E" -> "e"
      [] c = "A" -> "a"
      [] c = "R" -> "r"
      [] c = "T" -> "t"
      [] OTHER -> c

Lower_Identity(str) == str

Lower(str) == [i \in 1..Len(str) |-> LowerChar(str[i])]

\* len(str)
RECURSIVE StrLen(_)
StrLen(str) == IF str = <<>> THEN 0 ELSE Len(Head(str)) + StrLen(Tail(str))

\* every str over chars of length at most n
RECURSIVE StrsUpTo(_, _)
StrsUpTo(chars, n) ==
    IF n = 0 THEN {<<>>}
    ELSE LET shorter == StrsUpTo(chars, n - 1)
         IN  shorter \cup {Append(w, c) : w \in shorter, c \in chars}

\* an optional header: Header(None) gives None when the header is not sent
Absent == [present |-> FALSE, val |-> <<>>]
Sent(val) == [present |-> TRUE, val |-> val]

\* `not x` for an optional str: None or ""
NotStr(h) == ~h.present \/ h.val = <<>>

(***************************************************************************)
(* argon2.PasswordHasher, as security.py uses it.  The key-derivation      *)
(* function is treated as a perfect one: the encoded hash determines the   *)
(* secret it was made of and nothing else matches it.                      *)
(***************************************************************************)
\* parameters of PasswordHasher() built with its defaults
DefaultParams == "m=65536,t=3,p=4"
WeakParams == "m=8,t=1,p=1"

\* the encoded hash "$argon2id$<params>$<salt>$<digest of secret>"
Argon2Encode(params, salt, secret) == <<"$argon2id$", params, salt>> \o secret

\* PasswordHasher.hash(password), the salt drawn at random by the library
Argon2Hash(password, salt) == Argon2Encode(DefaultParams, salt, password)

Argon2WellFormed(h) == Len(h) >= 3 /\ h[1] = "$argon2id$"

Argon2Secret(h) == SubSeq(h, 4, Len(h))

\* PasswordHasher.verify(hash, password): True, or the exception it raises.
\* The parameters and the salt are read from the encoded hash.
Argon2Verify(hash, password) ==
    IF ~Argon2WellFormed(hash) THEN "InvalidHash"
    ELSE IF Argon2Secret(hash) = password THEN "True"
    ELSE "VerifyMismatchError"

\* a hasher that hands the password back
hash_password_Plaintext(password, salt) == password

\* hash_password(password)
hash_password(password, salt) == Argon2Hash(password, salt)

\* verify_password(plain_password, hashed_password): the two arguments are
\* handed to PasswordHasher.verify in this order, whose parameters are
\* (hash, password); every exception becomes False.
verify_password(plain_password, hashed_password) ==
    LET r == Argon2Verify(plain_password, hashed_password)
    IN  [ret |-> (r = "True"),
         caught |-> IF r = "True" THEN "" ELSE r,
         raised |-> ""]

(***************************************************************************)
(* Token service: create_token / verify_token over jose.jwt.  The MAC is   *)
(* treated as a perfect one: a signature is the triple it was computed     *)
(* from, and matches nothing else.                                         *)
(***************************************************************************)
TicksPerSecond == 2     \* resolution of the clock below one second
SecondsPerMinute == 60  \* timedelta(minutes=...)
MaxMinutes == 3         \* the clock stops after this many minutes
MaxSubSeconds == 1      \* single ticks are taken this far into a minute
TicksPerMinute == SecondsPerMinute * TicksPerSecond

JWT_SECRET_KEY == "change-this-in-production"
JWT_ALGORITHM == "HS256"

Usernames == {"alice", "bob"}

\* a claims mapping: each key is present or not
NoClaims == [has_sub |-> FALSE, sub |-> "", has_uid |-> FALSE, uid |-> 0,
             has_exp |-> FALSE, exp |-> 0]

Hmac(key, alg, claims) == [key |-> key, alg |-> alg, claims |-> claims]

NoToken == [fmt |-> "none", alg |-> "", claims |-> NoClaims,
            mac |-> Hmac("", "", NoClaims)]

\* a text that is no three-segment JWS (such as "abc")
GarbageToken == [NoToken EXCEPT !.fmt = "garbage"]

\* jwt.encode(claims, key, algorithm): header.payload.signature
JwtEncode(claims, key, alg) ==
    [fmt |-> "jws", alg |-> alg, claims |-> claims,
     mac |-> Hmac(key, alg, claims)]

\* int(datetime.timestamp()) and jose's timegm(utcnow().utctimetuple()):
\* whole seconds, the fraction dropped
WholeSeconds(ticks) == ticks \div TicksPerSecond

\* int((now + timedelta(minutes=expire_minutes)).timestamp())
ExpClaim_Minus(nowTicks, expire_minutes) ==
    WholeSeconds(nowTicks - expire_minutes * TicksPerMinute)

ExpClaim(nowTicks, expire_minutes) ==
    WholeSeconds(nowTicks + expire_minutes * TicksPerMinute)

\* create_token(data, expire_minutes) called at nowTicks
create_token_ZeroOk(data, expire_minutes, nowTicks) ==
    IF expire_minutes < 0
    THEN [raised |-> "ValueError", token |-> NoToken]
    ELSE [raised |-> "",
          token |-> JwtEncode([data EXCEPT !.has_exp = TRUE,
                                           !.exp = ExpClaim(nowTicks, expire_minutes)],
                              JWT_SECRET_KEY, JWT_ALGORITHM)]

create_token(data, expire_minutes, nowTicks) ==
    IF expire_minutes <= 0
    THEN [raised |-> "ValueError", token |-> NoToken]
    ELSE [raised |-> "",
          token |-> JwtEncode([data EXCEPT !.has_exp = TRUE,
                                           !.exp = ExpClaim(nowTicks, expire_minutes)],
                              JWT_SECRET_KEY, JWT_ALGORITHM)]

DecodeFail(exc, stage) ==
    [ok |-> FALSE, payload |-> NoClaims, exc |-> exc, stage |-> stage]

\* jwt.decode(token, key, algorithms=[...]) called at nowTicks: the segments
\* are parsed, the header's alg is checked, the signature is verified, and
\* only then are the claims validated (exp against the current second).
JwtDecode_ExpFirst(token, key, algorithms, nowTicks) ==
    IF token.fmt # "jws" THEN DecodeFail("JWTError", "format")
    ELSE IF token.claims.has_exp /\ token.claims.exp < WholeSeconds(nowTicks)
    THEN DecodeFail("ExpiredSignatureError", "expiry")
    ELSE IF token.alg \notin algorithms THEN DecodeFail("JWTError", "algorithm")
    ELSE IF token.mac # Hmac(key, token.alg, token.claims)
    THEN DecodeFail("JWTError", "signature")
    ELSE [ok |-> TRUE, payload |-> token.claims, exc |-> "", stage |-> "done"]

JwtDecode_NoSignature(token, key, algorithms, nowTicks) ==
    IF token.fmt # "jws" THEN DecodeFail("JWTError", "format")
    ELSE IF token.alg \notin algorithms THEN DecodeFail("JWTError", "algorithm")
    ELSE IF token.claims.has_exp /\ token.claims.exp < WholeSeconds(nowTicks)
    THEN DecodeFail("ExpiredSignatureError", "expiry")
    ELSE [ok |-> TRUE, payload |-> token.claims, exc |-> "", stage |-> "done"]

JwtDecode(token, key, algorithms, nowTicks) ==
    IF token.fmt # "jws" THEN DecodeFail("JWTError", "format")
    ELSE IF token.alg \notin algorithms THEN DecodeFail("JWTError", "algorithm")
    ELSE IF token.mac # Hmac(key, token.alg, token.claims)
    THEN DecodeFail("JWTError", "signature")
    ELSE IF token.claims.has_exp /\ token.claims.exp < WholeSeconds(nowTicks)
    THEN DecodeFail("ExpiredSignatureError", "expiry")
    ELSE [ok |-> TRUE, payload |-> token.claims, exc |-> "", stage |-> "done"]

\* verify_token(token) called at nowTicks: the payload, or None
verify_token_KeepExpired(token, nowTicks) ==
    LET d == JwtDecode(token, JWT_SECRET_KEY, {JWT_ALGORITHM}, nowTicks)
    IN  IF d.ok \/ d.exc = "ExpiredSignatureError"
        THEN [some |-> TRUE, payload |-> token.claims, caught |-> d.exc,
              stage |-> d.stage, raised |-> ""]
        ELSE [some |-> FALSE, payload |-> NoClaims, caught |-> d.exc,
              stage |-> d.stage, raised |-> ""]

verify_token(token, nowTicks) ==
    LET d == JwtDecode(token, JWT_SECRET_KEY, {JWT_ALGORITHM}, nowTicks)
    IN  IF d.ok
        THEN [some |-> TRUE, payload |-> d.payload, caught |-> "",
              stage |-> d.stage, raised |-> ""]
        ELSE IF d.exc = "ExpiredSignatureError"
        THEN [some |-> FALSE, payload |-> NoClaims, caught |-> d.exc,
              stage |-> d.stage, raised |-> ""]
        ELSE IF d.exc = "JWTError"
        THEN [some |-> FALSE, payload |-> NoClaims, caught |-> d.exc,
              stage |-> d.stage, raised |-> ""]
        ELSE [some |-> FALSE, payload |-> NoClaims, caught |-> "",
              stage |-> d.stage, raised |-> d.exc]

\* `not payload`: None or an empty mapping
Falsy(v) == ~v.some \/ v.payload = NoClaims

\* get_current_user_payload(token) called at nowTicks
get_current_user_payload(token, nowTicks) ==
    LET v == verify_token(token, nowTicks)
    IN  IF Falsy(v)
        THEN [status |-> 401, detail |-> "Invalid or expired JWT token",
              payload |-> NoClaims, verified |-> v]
        ELSE [status |-> 200, detail |-> "", payload |-> v.payload,
              verified |-> v]

(***************************************************************************)
(* API-key gate: get_api_key                                               *)
(***************************************************************************)
MaxKeyLen == 2      \* longest configured key
MaxInputLen == 3    \* longest X-API-Key value sent

KeyChars == {"k", "x"}

\* values of API_KEY in the environment: non-empty, no surrounding blanks
ConfiguredKeys == StrsUpTo(KeyChars, MaxKeyLen) \ {<<>>}

KeyHeaders ==
    {Absent} \cup {Sent(v) : v \in StrsUpTo(KeyChars \cup {" "}, MaxInputLen)}

\* get_api_key(x_api_key) against the configured key
get_api_key(x_api_key, configured) ==
    IF NotStr(x_api_key)
    THEN [status |-> 403,
          detail |-> "API key is required. Provide X-API-Key header."]
    ELSE IF Strip(x_api_key.val) # configured
    THEN [status |-> 403, detail |-> "Invalid API key"]
    ELSE [status |-> 200, detail |-> ""]

(***************************************************************************)
(* Authenticator: the dependencies of app/core/dependencies.py             *)
(***************************************************************************)
Bearer == <<"b", "e", "a", "r", "e", "r">>

\* the run of characters that is the compact serialization of the token the
\* client holds (it has no whitespace in it)
JwtText == <<"<jwt>">>

\* the token string a text denotes when handed to verify_token
TokenOfText(text, held) == IF text = JwtText THEN held ELSE GarbageToken

AuthRequired == "Authorization header is required"
AuthMalformed == "Invalid authorization header. Use: Bearer <token>"

\* get_token_from_header(authorization)
get_token_from_header_CaseSensitive(authorization) ==
    IF NotStr(authorization)
    THEN [status |-> 401, detail |-> AuthRequired, token |-> NoStr]
    ELSE IF Len(Split(authorization.val)) # 2
            \/ Split(authorization.val)[1] # <<"B", "e", "a", "r", "e", "r">>
    THEN [status |-> 401, detail |-> AuthMalformed, token |-> NoStr]
    ELSE [status |-> 200, detail |-> "", token |-> Split(authorization.val)[2]]

get_token_from_header(authorization) ==
    LET parts == Split(authorization.val)
    IN  IF NotStr(authorization)
        THEN [status |-> 401, detail |-> AuthRequired, token |-> NoStr]
        ELSE IF Len(parts) # 2 \/ Lower(parts[1]) # Bearer
        THEN [status |-> 401, detail |-> AuthMalformed, token |-> NoStr]
        ELSE [status |-> 200, detail |-> "", token |-> parts[2]]

\* a row of the users table
NoUser == [id |-> 0, username |-> "", email |-> "", hashed_password |-> NoStr,
           is_active |-> FALSE, is_admin |-> FALSE]

\* db.query(User).filter(User.username == name).first()
FindByUsername(db, name) ==
    LET hits == {i \in DOMAIN db : db[i].username = name}
    IN  IF hits = {} THEN NoUser
        ELSE db[CHOOSE i \in hits : \A j \in hits : i <= j]

\* get_current_user(payload, db)
get_current_user_NoUserCheck(payload, db) ==
    IF ~payload.has_sub \/ payload.sub = ""
    THEN [status |-> 401, detail |-> "Invalid token payload", user |-> NoUser]
    ELSE IF FindByUsername(db, payload.sub) # NoUser
            /\ ~FindByUsername(db, payload.sub).is_active
    THEN [status |-> 403, detail |-> "User account is deactivated",
          user |-> NoUser]
    ELSE [status |-> 200, detail |-> "",
          user |-> FindByUsername(db, payload.sub)]

get_current_user_NoActiveCheck(payload, db) ==
    IF ~payload.has_sub \/ payload.sub = ""
    THEN [status |-> 401, detail |-> "Invalid token payload", user |-> NoUser]
    ELSE IF FindByUsername(db, payload.sub) = NoUser
    THEN [status |-> 401, detail |-> "User not found", user |-> NoUser]
    ELSE [status |-> 200, detail |-> "",
          user |-> FindByUsername(db, payload.sub)]

get_current_user(payload, db) ==
    IF ~payload.has_sub \/ payload.sub = ""
    THEN [status |-> 401, detail |-> "Invalid token payload", user |-> NoUser]
    ELSE IF FindByUsername(db, payload.sub) = NoUser
    THEN [status |-> 401, detail |-> "User not found", user |-> NoUser]
    ELSE IF ~FindByUsername(db, payload.sub).is_active
    THEN [status |-> 403, detail |-> "User account is deactivated",
          user |-> NoUser]
    ELSE [status |-> 200, detail |-> "",
          user |-> FindByUsername(db, payload.sub)]

\* an authenticator that remembers the tokens it has accepted
Authenticate_Cached(authorization, held, nowTicks, db) ==
    LET e == get_token_from_header(authorization)
        t == TokenOfText(e.token, held)
        p == get_current_user_payload(t, nowTicks)
        u == get_current_user(p.payload, db)
    IN  IF e.status # 200
        THEN [status |-> e.status, detail |-> e.detail, stage |-> "extract",
              token |-> NoToken, user |-> NoUser]
        ELSE IF p.status # 200
        THEN [status |-> p.status, detail |-> p.detail, stage |-> "verify",
              token |-> t, user |-> NoUser]
        ELSE IF tokMeta.accepted /\ p.payload.has_sub
        THEN [status |-> 200, detail |-> "", stage |-> "done", token |-> t,
              user |-> [NoUser EXCEPT !.username = p.payload.sub,
                                      !.is_active = TRUE]]
        ELSE IF u.status # 200
        THEN [status |-> u.status, detail |-> u.detail, stage |-> "resolve",
              token |-> t, user |-> NoUser]
        ELSE [status |-> 200, detail |-> "", stage |-> "done",
              token |-> t, user |-> u.user]

\* an authenticator that refuses the tokens that were used to log out
Authenticate_Revoking(authorization, held, nowTicks, db) ==
    LET e == get_token_from_header(authorization)
        t == TokenOfText(e.token, held)
        p == get_current_user_payload(t, nowTicks)
        u == get_current_user(p.payload, db)
    IN  IF e.status # 200
        THEN [status |-> e.status, detail |-> e.detail, stage |-> "extract",
              token |-> NoToken, user |-> NoUser]
        ELSE IF p.status # 200
        THEN [status |-> p.status, detail |-> p.detail, stage |-> "verify",
              token |-> t, user |-> NoUser]
        ELSE IF tokMeta.logged_out
        THEN [status |-> 401, detail |-> "Token has been revoked",
              stage |-> "verify", token |-> t, user |-> NoUser]
        ELSE IF u.status # 200
        THEN [status |-> u.status, detail |-> u.detail, stage |-> "resolve",
              token |-> t, user |-> NoUser]
        ELSE [status |-> 200, detail |-> "", stage |-> "done",
              token |-> t, user |-> u.user]

\* the dependency chain of a route with user = Depends(get_current_user):
\* get_token_from_header, get_current_user_payload, get_current_user
Authenticate(authorization, held, nowTicks, db) ==
    LET e == get_token_from_header(authorization)
        t == TokenOfText(e.token, held)
        p == get_current_user_payload(t, nowTicks)
        u == get_current_user(p.payload, db)
    IN  IF e.status # 200
        THEN [status |-> e.status, detail |-> e.detail, stage |-> "extract",
              token |-> NoToken, user |-> NoUser]
        ELSE IF p.status # 200
        THEN [status |-> p.status, detail |-> p.detail, stage |-> "verify",
              token |-> t, user |-> NoUser]
        ELSE IF u.status # 200
        THEN [status |-> u.status, detail |-> u.detail, stage |-> "resolve",
              token |-> t, user |-> NoUser]
        ELSE [status |-> 200, detail |-> "", stage |-> "done",
              token |-> t, user |-> u.user]

\* get_current_admin_user(current_user)
get_current_admin_user_AnyUser(current_user) ==
    [status |-> 200, detail |-> "", user |-> current_user]

get_current_admin_user(current_user) ==
    IF ~current_user.is_admin
    THEN [status |-> 403, detail |-> "Admin access required", user |-> NoUser]
    ELSE [status |-> 200, detail |-> "", user |-> current_user]

\* the dependency chain of a route with
\* user = Depends(get_current_admin_user)
AdminChecked(auth) ==
    IF auth.status # 200 THEN auth
    ELSE IF get_current_admin_user(auth.user).status # 200
    THEN [status |-> get_current_admin_user(auth.user).status,
          detail |-> get_current_admin_user(auth.user).detail,
          stage |-> "admin", token |-> auth.token, user |-> NoUser]
    ELSE [auth EXCEPT !.user = get_current_admin_user(auth.user).user]

AuthenticateAdmin(authorization, held, nowTicks, db) ==
    AdminChecked(Authenticate(authorization, held, nowTicks, db))

\* optional_authentication(authorization): the payload verify_token gives
\* for the header's token, or None; the HTTPException of
\* get_token_from_header is caught by the bare except
optional_authentication(authorization, held, nowTicks) ==
    LET e == get_token_from_header(authorization)
        v == verify_token(TokenOfText(e.token, held), nowTicks)
    IN  IF NotStr(authorization)
        THEN [some |-> FALSE, payload |-> NoClaims, caught |-> "",
              raised |-> ""]
        ELSE IF e.status # 200
        THEN [some |-> FALSE, payload |-> NoClaims,
              caught |-> "HTTPException", raised |-> ""]
        ELSE [some |-> v.some, payload |-> v.payload, caught |-> "",
              raised |-> v.raised]

\* the dependencies of a route that declares
\*   user = Depends(get_current_user), _ = Depends(get_api_key)
\* are solved in the order of declaration; the first that raises ends the
\* request
GateThenAuth(auth, gate) ==
    IF gate.status # 200
    THEN [status |-> gate.status, detail |-> gate.detail, stage |-> "gate",
          token |-> NoToken, user |-> NoUser, order |-> <<"gate">>]
    ELSE IF auth.status # 200
    THEN [status |-> auth.status, detail |-> auth.detail,
          stage |-> auth.stage, token |-> auth.token, user |-> NoUser,
          order |-> <<"gate", "authenticator">>]
    ELSE [status |-> 200, detail |-> "", stage |-> "done",
          token |-> auth.token, user |-> auth.user,
          order |-> <<"gate", "authenticator">>]

AuthThenGate(auth, gate) ==
    IF auth.status # 200
    THEN [status |-> auth.status, detail |-> auth.detail,
          stage |-> auth.stage, token |-> auth.token, user |-> NoUser,
          order |-> <<"authenticator">>]
    ELSE IF gate.status # 200
    THEN [status |-> gate.status, detail |-> gate.detail, stage |-> "gate",
          token |-> auth.token, user |-> NoUser,
          order |-> <<"authenticator", "gate">>]
    ELSE [status |-> 200, detail |-> "", stage |-> "done",
          token |-> auth.token, user |-> auth.user,
          order |-> <<"authenticator", "gate">>]

Protect_GateFirst(authorization, x_api_key, held, nowTicks, db, configured) ==
    GateThenAuth(Authenticate(authorization, held, nowTicks, db),
                 get_api_key(x_api_key, configured))

Protect(authorization, x_api_key, held, nowTicks, db, configured) ==
    AuthThenGate(Authenticate(authorization, held, nowTicks, db),
                 get_api_key(x_api_key, configured))

(***************************************************************************)
(* Prediction service: app/services/model_service.py.  The cache is a      *)
(* collaborator with get(key) and set(key, value); an entry is the pair of *)
(* the input it is keyed by and the price set for it.                      *)
(***************************************************************************)
MinYear == 1900     \* data['year'] < 1900
MaxYear == 2030     \* data['year'] > 2030
MinSeats == 2       \* data['seats'] < 2
MaxSeats == 10      \* data['seats'] > 10

\* validate_input_data(data): the ValueError it raises, if any
validate_input_data(data) ==
    IF data.missing_fields # {} THEN "Missing required fields"
    ELSE IF data.year < MinYear \/ data.year > MaxYear THEN "Invalid year"
    ELSE IF data.km_driven < 0 THEN "Invalid km_driven"
    ELSE IF data.seats < MinSeats \/ data.seats > MaxSeats
    THEN "Invalid seats"
    ELSE ""

\* model.predict(input_data)[0]: the regressor's estimate
ModelPrice(data) ==
    CASE data.company = "Maruti" -> 450000
      [] data.company = "Scrap" -> 0
      [] OTHER -> 2500000

\* get_cached_prediction(cache_key)
Cached(entries, data) == \E e \in entries : e.key = data
CachedPrice(entries, data) == (CHOOSE e \in entries : e.key = data).price

\* set_cached_prediction(cache_key, prediction)
CacheSet(entries, data, price) ==
    {e \in entries : e.key # data} \cup {[key |-> data, price |-> price]}

\* predict_car_price(data), with the model loaded or not
\* a predict_car_price() that never asks the cache
predict_car_price_NoLookup(data, entries, modelUp) ==
    IF validate_input_data(data) # ""
    THEN [raised |-> "ValueError", message |-> validate_input_data(data),
          price |-> 0, cache |-> entries, looked |-> FALSE,
          computed |-> FALSE]
    ELSE IF ~modelUp
    THEN [raised |-> "PredictionException",
          message |-> "Prediction failed: Model file not found",
          price |-> 0, cache |-> entries, looked |-> FALSE,
          computed |-> FALSE]
    ELSE [raised |-> "", message |-> "", price |-> ModelPrice(data),
          cache |-> CacheSet(entries, data, ModelPrice(data)),
          looked |-> FALSE, computed |-> TRUE]

\* a predict_car_price() that asks the cache before it validates
predict_car_price_LookupFirst(data, entries, modelUp) ==
    IF Cached(entries, data)
    THEN [raised |-> "", message |-> "",
          price |-> CachedPrice(entries, data), cache |-> entries,
          looked |-> TRUE, computed |-> FALSE]
    ELSE IF validate_input_data(data) # ""
    THEN [raised |-> "ValueError", message |-> validate_input_data(data),
          price |-> 0, cache |-> entries, looked |-> TRUE,
          computed |-> FALSE]
    ELSE IF ~modelUp
    THEN [raised |-> "PredictionException",
          message |-> "Prediction failed: Model file not found",
          price |-> 0, cache |-> entries, looked |-> TRUE,
          computed |-> FALSE]
    ELSE [raised |-> "", message |-> "", price |-> ModelPrice(data),
          cache |-> CacheSet(entries, data, ModelPrice(data)),
          looked |-> TRUE, computed |-> TRUE]

\* predict_car_price(data), with the model loaded or not: looked says
\* that the cache was asked, computed that the model was
predict_car_price(data, entries, modelUp) ==
    IF validate_input_data(data) # ""
    THEN [raised |-> "ValueError", message |-> validate_input_data(data),
          price |-> 0, cache |-> entries, looked |-> FALSE,
          computed |-> FALSE]
    ELSE IF Cached(entries, data)
    THEN [raised |-> "", message |-> "",
          price |-> CachedPrice(entries, data), cache |-> entries,
          looked |-> TRUE, computed |-> FALSE]
    ELSE IF ~modelUp
    THEN [raised |-> "PredictionException",
          message |-> "Prediction failed: Model file not found",
          price |-> 0, cache |-> entries, looked |-> TRUE,
          computed |-> FALSE]
    ELSE [raised |-> "", message |-> "", price |-> ModelPrice(data),
          cache |-> CacheSet(entries, data, ModelPrice(data)),
          looked |-> TRUE, computed |-> TRUE]

\* what batch_predict() appends for one car: the prediction, or None
NoPrice == [some |-> FALSE, price |-> 0]
SomePrice(price) == [some |-> TRUE, price |-> price]

BatchEntry(est) == IF est.raised # "" THEN NoPrice ELSE SomePrice(est.price)

\* a batch_predict() that stops at the first car that fails
RECURSIVE BatchFrom_Abort(_, _, _, _)
BatchFrom_Abort(data_list, entries, modelUp, acc) ==
    IF data_list = <<>> THEN [results |-> acc, cache |-> entries]
    ELSE IF predict_car_price(Head(data_list), entries, modelUp).raised # ""
    THEN [results |-> Append(acc, NoPrice), cache |-> entries]
    ELSE BatchFrom_Abort(
             Tail(data_list),
             predict_car_price(Head(data_list), entries, modelUp).cache,
             modelUp,
             Append(acc, BatchEntry(predict_car_price(Head(data_list),
                                                      entries, modelUp))))

\* the loop of batch_predict(): predictions so far in acc
RECURSIVE BatchFrom(_, _, _, _)
BatchFrom(data_list, entries, modelUp, acc) ==
    IF data_list = <<>> THEN [results |-> acc, cache |-> entries]
    ELSE BatchFrom(
             Tail(data_list),
             predict_car_price(Head(data_list), entries, modelUp).cache,
             modelUp,
             Append(acc, BatchEntry(predict_car_price(Head(data_list),
                                                      entries, modelUp))))

\* batch_predict(data_list)
batch_predict(data_list, entries, modelUp) ==
    BatchFrom(data_list, entries, modelUp, <<>>)

(***************************************************************************)
(* Exception handlers: app/core/custom_exceptions.py.  An exception is its *)
(* class, its message (detail, for an HTTPException) and its status_code;  *)
(* a JSON body is the set of its keys and the values of those keys.        *)
(***************************************************************************)
NoBody == [keys |-> {}, error |-> "", status_code |-> 0, message |-> "",
           type |-> ""]

CustomClasses ==
    {"CustomAPIException", "ModelNotLoadedException", "PredictionException",
     "DatabaseException"}

custom_api_exception_handler(exc) ==
    [status |-> exc.status_code,
     body |-> [NoBody EXCEPT !.keys = {"error", "path"},
                             !.error = exc.message]]

http_exception_handler(exc) ==
    [status |-> exc.status_code,
     body |-> [NoBody EXCEPT !.keys = {"error", "status_code"},
                             !.error = exc.message,
                             !.status_code = exc.status_code]]

validation_exception_handler(exc) ==
    [status |-> 422,
     body |-> [NoBody EXCEPT !.keys = {"error", "details"},
                             !.error = "Validation failed"]]

database_exception_handler(exc) ==
    [status |-> 500,
     body |-> [NoBody EXCEPT
                 !.keys = {"error", "message"},
                 !.error = "Database operation failed",
                 !.message = "An error occurred while processing your request"]]

value_error_handler(exc) ==
    [status |-> 400,
     body |-> [NoBody EXCEPT !.keys = {"error", "message"},
                             !.error = "Invalid value",
                             !.message = exc.message]]

unhandled_exception_handler(exc) ==
    [status |-> 500,
     body |-> [NoBody EXCEPT
                 !.keys = {"error", "message", "type"},
                 !.error = "Internal server error",
                 !.message = "An unexpected error occurred. Please try again later.",
                 !.type = exc.class]]

\* the handler registered for the nearest base class of the exception
HandleException(exc) ==
    IF exc.class \in CustomClasses THEN custom_api_exception_handler(exc)
    ELSE IF exc.class = "HTTPException" THEN http_exception_handler(exc)
    ELSE IF exc.class = "RequestValidationError"
    THEN validation_exception_handler(exc)
    ELSE IF exc.class = "SQLAlchemyError" THEN database_exception_handler(exc)
    ELSE IF exc.class = "ValueError" THEN value_error_handler(exc)
    ELSE unhandled_exception_handler(exc)

\* status_code an exception is built with: HTTPException takes it from the
\* raise, the custom classes from their constructors
StatusOfClass(class) ==
    CASE class = "ModelNotLoadedException" -> 503
      [] class = "PredictionException" -> 500
      [] class = "DatabaseException" -> 500
      [] class = "CustomAPIException" -> 400
      [] OTHER -> 0

(***************************************************************************)
(* The users table and the routes of app/api/routes_auth.py                *)
(***************************************************************************)
MaxUsers == 2           \* rows the users table is filled up to
MaxUserId == 3          \* largest primary key the users table gives out
MinPasswordLen == 6     \* len(user_input.password) < 6

Emails == {"alice@x.org", "bob@x.org"}

\* db.query(User).filter(User.email == email).first()
FindByEmail(db, email) ==
    LET hits == {i \in DOMAIN db : db[i].email = email}
    IN  IF hits = {} THEN NoUser
        ELSE db[CHOOSE i \in hits : \A j \in hits : i <= j]

\* the primary key the table gives the next row: one more than the largest
NextUserId(db) ==
    IF db = <<>> THEN 1
    ELSE 1 + CHOOSE m \in {db[i].id : i \in DOMAIN db} :
                 \A i \in DOMAIN db : db[i].id <= m

\* the row register() adds
NewUser(db, username, email, password, salt) ==
    [id |-> NextUserId(db), username |-> username, email |-> email,
     hashed_password |-> hash_password(password, salt),
     is_active |-> TRUE, is_admin |-> FALSE]

\* a register() that does not look for the email
register_NoEmailCheck(username, email, password, salt, db) ==
    IF FindByUsername(db, username) # NoUser
    THEN [status |-> 400, detail |-> "Username already registered",
          db |-> db, user |-> NoUser]
    ELSE IF StrLen(password) < MinPasswordLen
    THEN [status |-> 400,
          detail |-> "Password must be at least 6 characters long",
          db |-> db, user |-> NoUser]
    ELSE [status |-> 201, detail |-> "",
          db |-> Append(db, NewUser(db, username, email, password, salt)),
          user |-> NewUser(db, username, email, password, salt)]

\* register(user_input, db)
register(username, email, password, salt, db) ==
    IF FindByUsername(db, username) # NoUser
    THEN [status |-> 400, detail |-> "Username already registered",
          db |-> db, user |-> NoUser]
    ELSE IF FindByEmail(db, email) # NoUser
    THEN [status |-> 400, detail |-> "Email already registered",
          db |-> db, user |-> NoUser]
    ELSE IF StrLen(password) < MinPasswordLen
    THEN [status |-> 400,
          detail |-> "Password must be at least 6 characters long",
          db |-> db, user |-> NoUser]
    ELSE [status |-> 201, detail |-> "",
          db |-> Append(db, NewUser(db, username, email, password, salt)),
          user |-> NewUser(db, username, email, password, salt)]

ExtIdle == [fn |-> "none", header |-> Absent, status |-> 0, detail |-> "",
            token |-> NoStr]

MaxWorkers == 2     \* requests the thread pool serves at a time
Workers == 1..MaxWorkers

\* a worker with no request between its check and its commit
NoRequest == [op |-> "none", user_id |-> 0,
              form |-> [username |-> "", email |-> "", password |-> <<>>]]

NoCar == [company |-> "", year |-> 0, km_driven |-> 0, seats |-> 0,
          missing_fields |-> {}]

\* no request is being answered
RespIdle == [route |-> "none", header |-> Absent, key |-> Absent,
             status |-> 0,
             detail |-> "", stage |-> "none", token |-> NoToken,
             user |-> NoUser, handled |-> FALSE,
             some |-> FALSE, claims |-> NoClaims, order |-> <<>>,
             exc |-> "", message |-> "", body |-> NoBody,
             updated_fields |-> <<>>,
             form |-> [username |-> "", email |-> "", password |-> <<>>],
             car |-> NoCar, price |-> 0, looked |-> FALSE,
             computed |-> FALSE, cars |-> <<>>, results |-> <<>>,
             labels |-> <<>>, saved_ids |-> <<>>, rows |-> <<>>]

AppInit ==
    /\ extCall = ExtIdle
    /\ users = <<>>
    /\ resp = RespIdle
    /\ predictions = <<>>
    /\ cache = {}
    /\ pending = [r \in Workers |-> NoRequest]

(***************************************************************************)
(* Token service on its own, under a clock                                 *)
(***************************************************************************)
TTLs == {-5, 0, 1, 2}

\* the claims a caller hands to create_token
ClaimsData ==
    {[NoClaims EXCEPT !.has_uid = TRUE, !.uid = 1]}
    \cup {[NoClaims EXCEPT !.has_sub = TRUE, !.sub = u] : u \in Usernames}
    \cup {[NoClaims EXCEPT !.has_sub = TRUE, !.sub = "alice",
                           !.has_uid = TRUE, !.uid = 1]}

\* token strings this process never signed
ForeignTokens(nowTicks) ==
    {GarbageToken}
    \cup {JwtEncode([NoClaims EXCEPT !.has_sub = TRUE, !.sub = "alice",
                                     !.has_exp = TRUE,
                                     !.exp = WholeSeconds(nowTicks) + d],
                    k[1], k[2]) :
            d \in {-1, SecondsPerMinute},
            k \in {<<"attacker-key", "HS256">>, <<"", "none">>,
                   <<"attacker-key", "HS512">>}}

\* payloads an attacker may put in place of the signed one
Tampered(claims) ==
    {[claims EXCEPT !.has_sub = TRUE, !.sub = "bob"],
     [claims EXCEPT !.exp = @ + SecondsPerMinute],
     [claims EXCEPT !.has_uid = TRUE, !.uid = 2]} \ {claims}

NoMeta == [origin |-> "none", at |-> 0, ttl |-> 0, data |-> NoClaims,
           tampered |-> FALSE, accepted |-> FALSE, logged_out |-> FALSE]

TkIdle == [fn |-> "none", ttl |-> 0, token |-> NoToken, some |-> FALSE,
           payload |-> NoClaims, caught |-> "", stage |-> "", raised |-> "",
           status |-> 0, detail |-> ""]

TkInit ==
    /\ now = 0
    /\ tok = NoToken
    /\ tokMeta = NoMeta
    /\ tkCall = TkIdle

Tick ==
    /\ now % TicksPerMinute < MaxSubSeconds * TicksPerSecond
    /\ now' = now + 1
    /\ tkCall' = TkIdle
    /\ resp' = RespIdle
    /\ UNCHANGED <<pending, storeVars, tok, tokMeta, pwVars, gateVars, extCall, users>>

AdvanceMinute ==
    /\ now + TicksPerMinute < MaxMinutes * TicksPerMinute
    /\ now' = now + TicksPerMinute
    /\ tkCall' = TkIdle
    /\ resp' = RespIdle
    /\ UNCHANGED <<pending, storeVars, tok, tokMeta, pwVars, gateVars, extCall, users>>

CreateCall(data, ttl) ==
    [TkIdle EXCEPT !.fn = "create_token", !.ttl = ttl,
                   !.token = create_token(data, ttl, now).token,
                   !.raised = create_token(data, ttl, now).raised]

CreateToken(data, ttl) ==
    /\ tkCall' = CreateCall(data, ttl)
    /\ tok' = create_token(data, ttl, now).token
    /\ tokMeta' = IF create_token(data, ttl, now).raised = ""
                  THEN [origin |-> "issued", at |-> now, ttl |-> ttl,
                        data |-> data, tampered |-> FALSE,
                        accepted |-> FALSE, logged_out |-> FALSE]
                  ELSE NoMeta
    /\ resp' = RespIdle
    /\ UNCHANGED <<pending, storeVars, now, pwVars, gateVars, extCall, users>>

TamperPayload(claims) ==
    /\ tokMeta.origin = "issued"
    /\ ~tokMeta.tampered
    /\ tok' = [tok EXCEPT !.claims = claims]
    /\ tokMeta' = [tokMeta EXCEPT !.tampered = TRUE, !.accepted = FALSE,
                                  !.logged_out = FALSE]
    /\ tkCall' = TkIdle
    /\ resp' = RespIdle
    /\ UNCHANGED <<pending, storeVars, now, pwVars, gateVars, extCall, users>>

PresentForeign(t) ==
    /\ tok' = t
    /\ tokMeta' = [NoMeta EXCEPT !.origin = "foreign"]
    /\ tkCall' = TkIdle
    /\ resp' = RespIdle
    /\ UNCHANGED <<pending, storeVars, now, pwVars, gateVars, extCall, users>>

VerifyTokenCall ==
    [TkIdle EXCEPT !.fn = "verify_token", !.token = tok,
                   !.some = verify_token(tok, now).some,
                   !.payload = verify_token(tok, now).payload,
                   !.caught = verify_token(tok, now).caught,
                   !.stage = verify_token(tok, now).stage,
                   !.raised = verify_token(tok, now).raised]

VerifyToken ==
    /\ tok.fmt # "none"
    /\ tkCall' = VerifyTokenCall
    /\ resp' = RespIdle
    /\ UNCHANGED <<pending, storeVars, now, tok, tokMeta, pwVars, gateVars, extCall,
                   users>>

PayloadCall ==
    [TkIdle EXCEPT !.fn = "get_current_user_payload", !.token = tok,
                   !.some = get_current_user_payload(tok, now).verified.some,
                   !.payload = get_current_user_payload(tok, now).payload,
                   !.caught = get_current_user_payload(tok, now).verified.caught,
                   !.stage = get_current_user_payload(tok, now).verified.stage,
                   !.raised = get_current_user_payload(tok, now).verified.raised,
                   !.status = get_current_user_payload(tok, now).status,
                   !.detail = get_current_user_payload(tok, now).detail]

GetCurrentUserPayload ==
    /\ tok.fmt # "none"
    /\ tkCall' = PayloadCall
    /\ resp' = RespIdle
    /\ UNCHANGED <<pending, storeVars, now, tok, tokMeta, pwVars, gateVars, extCall,
                   users>>

NextTok ==
    \/ Tick
    \/ AdvanceMinute
    \/ \E d \in ClaimsData, t \in TTLs : CreateToken(d, t)
    \/ \E c \in Tampered(tok.claims) : TamperPayload(c)
    \/ \E t \in ForeignTokens(now) : PresentForeign(t)
    \/ VerifyToken
    \/ GetCurrentUserPayload


GateIdle == [fn |-> "none", header |-> Absent, status |-> 0, detail |-> ""]

\* settings.API_KEY when the environment does not set it
API_KEY == <<"d", "e", "m", "o", "-", "k", "e", "y">>

GateInit ==
    /\ apiKey = API_KEY
    /\ gateCall = GateIdle

\* start-up with API_KEY taken from the environment
GateInitEnv ==
    /\ apiKey \in ConfiguredKeys
    /\ gateCall = GateIdle

GateCall(h) ==
    [fn |-> "get_api_key", header |-> h,
     status |-> get_api_key(h, apiKey).status,
     detail |-> get_api_key(h, apiKey).detail]

GetApiKey(h) ==
    /\ gateCall' = GateCall(h)
    /\ UNCHANGED <<pending, storeVars, apiKey, pwVars, tkVars, extCall, users, resp>>

NextGate == \E h \in KeyHeaders : GetApiKey(h)

(***************************************************************************)
(* Password hasher on its own                                              *)
(***************************************************************************)
\* passwords users choose, and the salts os.urandom may give
PlainPasswords == {<<"s3cret!">>, <<"hunter2">>, <<"abc">>}
Salts == {"saltA", "saltB"}

\* hashes that hash_password of this process did not produce
ForeignHashes ==
    {NoStr, <<"not-a-hash">>, <<"$argon2id$">>,
     <<"$2b$12$", "saltA", "s3cret!">>}
    \cup {Argon2Encode(WeakParams, s, p) : s \in Salts, p \in PlainPasswords}

\* what a client may type as a password: a plain password, or the encoded
\* Argon2 hash of a text it knows (a plain password, a stored hash)
TypedPasswords(known) ==
    PlainPasswords
    \cup {Argon2Hash(k, s) : k \in known, s \in Salts}

PwIdle == [fn |-> "none", password |-> NoStr, hash |-> NoStr,
           ret |-> FALSE, caught |-> "", raised |-> ""]

PwInit ==
    /\ pwStored = [set |-> FALSE, hash |-> NoStr, of |-> NoStr]
    /\ pwCall = PwIdle

HashPassword(p, salt) ==
    /\ pwStored' = [set |-> TRUE, hash |-> hash_password(p, salt), of |-> p]
    /\ pwCall' = [PwIdle EXCEPT !.fn = "hash_password", !.password = p,
                                !.hash = hash_password(p, salt)]
    /\ UNCHANGED <<pending, storeVars, tkVars, gateVars, extCall, users, resp>>

VerifyCall(p, h) ==
    LET r == verify_password(p, h)
    IN  [fn |-> "verify_password", password |-> p, hash |-> h,
         ret |-> r.ret, caught |-> r.caught, raised |-> r.raised]

VerifyPassword(p, h) ==
    /\ pwCall' = VerifyCall(p, h)
    /\ UNCHANGED <<pending, storeVars, pwStored, tkVars, gateVars, extCall, users,
                   resp>>

KnownHashes == IF pwStored.set THEN {pwStored.hash} ELSE {}

NextPwd ==
    \/ \E p \in PlainPasswords, s \in Salts : HashPassword(p, s)
    \/ \E p \in TypedPasswords(PlainPasswords \cup KnownHashes),
          h \in KnownHashes \cup ForeignHashes : VerifyPassword(p, h)

(***************************************************************************)
(* get_token_from_header on its own                                        *)
(***************************************************************************)
Schemes ==
    {<<>>,
     <<"B", "e", "a", "r", "e", "r">>,
     <<"b", "e", "a", "r", "e", "r">>,
     <<"B", "E", "A", "R", "E", "R">>,
     <<"T", "o", "k", "e", "n">>}

Separators == {<<>>, <<" ">>, <<" ", " ">>, <<"\t">>}

Credentials == {<<>>, JwtText, <<"a", "b", "c">>}

Leads == {<<>>, <<" ">>}

Trails == {<<>>, <<" ">>, <<" ", "x">>}

\* values of the Authorization header, sent or not
AuthHeaders ==
    {Absent}
    \cup {Sent(l \o s \o p \o c \o t) :
            l \in Leads, s \in Schemes, p \in Separators,
            c \in Credentials, t \in Trails}

ExtractCall(h) ==
    [fn |-> "get_token_from_header", header |-> h,
     status |-> get_token_from_header(h).status,
     detail |-> get_token_from_header(h).detail,
     token |-> get_token_from_header(h).token]

GetTokenFromHeader(h) ==
    /\ extCall' = ExtractCall(h)
    /\ UNCHANGED <<pending, storeVars, pwVars, tkVars, gateVars, users, resp>>

NextExtract == \E h \in AuthHeaders : GetTokenFromHeader(h)

(***************************************************************************)
(* The application: clock, clients' tokens, POST /register, GET /me        *)
(***************************************************************************)
RegisterPasswords == {<<"s3cret!">>, <<"abc">>}

\* Authorization headers clients send with a request
RequestHeaders ==
    {Absent,
     Sent(<<"B", "e", "a", "r", "e", "r", " ">> \o JwtText),
     Sent(<<"T", "o", "k", "e", "n", " ">> \o JwtText),
     Sent(<<"B", "e", "a", "r", "e", "r", " ", "a", "b", "c">>)}

\* the response the exception handlers make of a request that raised
Rendered(r) ==
    LET out == HandleException([class |-> r.exc, message |-> r.message,
                              status_code |-> r.status])
    IN  [r EXCEPT !.status = out.status, !.body = out.body]

\* a route's answer: the HTTPException it raised goes to its handler
Answer(r) ==
    IF r.status >= 400
    THEN Rendered([r EXCEPT !.exc = "HTTPException", !.message = r.detail])
    ELSE r

RegisterAnswer(out) ==
    Answer([RespIdle EXCEPT !.route = "POST /register",
                            !.status = out.status, !.detail = out.detail,
                            !.stage = "done", !.user = out.user,
                            !.handled = TRUE])

RegisterResponse(username, email, password, salt) ==
    [RegisterAnswer(register(username, email, password, salt, users))
        EXCEPT !.form = [username |-> username, email |-> email,
                         password |-> password]]

\* POST /register
Register(username, email, password, salt) ==
    /\ register(username, email, password, salt, users).status = 201
          => (Len(users) < MaxUsers /\ NextUserId(users) <= MaxUserId)
    /\ users' = register(username, email, password, salt, users).db
    /\ resp' = RegisterResponse(username, email, password, salt)
    /\ tkCall' = TkIdle
    /\ UNCHANGED <<pending, storeVars, now, tok, tokMeta, pwVars, gateVars, extCall>>

\* GET /me: the handler get_current_user_info runs when its dependency
\* get_current_user returned a user, and answers with that user's fields
AuthResponse(route, h, auth) ==
    Answer([RespIdle EXCEPT
              !.route = route, !.header = h, !.status = auth.status,
              !.detail = auth.detail, !.stage = auth.stage,
              !.token = auth.token, !.user = auth.user,
              !.handled = (auth.status = 200)])

MeResponse(h) == AuthResponse("GET /me", h, Authenticate(h, tok, now, users))

\* the header carries the token the client holds
CarriesToken(h) == h.present /\ \E i \in 1..Len(h.val) : h.val[i] = JwtText[1]

\* the token in the client's hands has now been accepted by a request
Accepted(meta, r) ==
    [meta EXCEPT !.accepted = @ \/ r.stage \in {"done", "admin", "gate"}]

GetMe(h) ==
    /\ CarriesToken(h) => tok.fmt # "none"
    /\ resp' = MeResponse(h)
    /\ tokMeta' = Accepted(tokMeta, resp')
    /\ tkCall' = TkIdle
    /\ UNCHANGED <<pending, storeVars, now, tok, pwVars, gateVars, extCall, users>>

(***************************************************************************)
(* The authenticator over a users table that its administrator changes     *)
(***************************************************************************)
\* the administrator of the store clears a user's is_active column
Deactivate(i) ==
    /\ users[i].is_active
    /\ users' = [users EXCEPT ![i].is_active = FALSE]
    /\ resp' = RespIdle
    /\ tkCall' = TkIdle
    /\ UNCHANGED <<pending, storeVars, now, tok, tokMeta, pwVars, gateVars, extCall>>

\* the administrator of the store sets a user's is_admin column
GrantAdmin(i) ==
    /\ ~users[i].is_admin
    /\ users' = [users EXCEPT ![i].is_admin = TRUE]
    /\ resp' = RespIdle
    /\ tkCall' = TkIdle
    /\ UNCHANGED <<pending, storeVars, now, tok, tokMeta, pwVars, gateVars, extCall>>

\* the administrator of the store deletes a user's row
RemoveUser(i) ==
    /\ users' = [k \in 1..(Len(users) - 1) |->
                    IF k < i THEN users[k] ELSE users[k + 1]]
    /\ resp' = RespIdle
    /\ tkCall' = TkIdle
    /\ UNCHANGED <<pending, storeVars, now, tok, tokMeta, pwVars, gateVars, extCall>>

\* a request to a route with user = Depends(get_current_admin_user)
AdminResponse(h) ==
    AuthResponse("admin only", h, AuthenticateAdmin(h, tok, now, users))

AdminOnly(h) ==
    /\ CarriesToken(h) => tok.fmt # "none"
    /\ resp' = AdminResponse(h)
    /\ tokMeta' = Accepted(tokMeta, resp')
    /\ tkCall' = TkIdle
    /\ UNCHANGED <<pending, storeVars, now, tok, pwVars, gateVars, extCall, users>>

\* a request to a route with payload = Depends(optional_authentication)
OptionalResult(h, opt) ==
    [RespIdle EXCEPT
        !.route = "optional", !.header = h,
        !.status = IF opt.raised = "" THEN 200 ELSE 500,
        !.stage = "done", !.handled = (opt.raised = ""),
        !.some = opt.some, !.claims = opt.payload]

OptionalResponse(h) ==
    OptionalResult(h, optional_authentication(h, tok, now))

OptionalAuth(h) ==
    /\ CarriesToken(h) => tok.fmt # "none"
    /\ resp' = OptionalResponse(h)
    /\ tkCall' = TkIdle
    /\ UNCHANGED <<pending, storeVars, now, tok, tokMeta, pwVars, gateVars, extCall,
                   users>>

Accounts == {<<"alice", "alice@x.org">>, <<"bob", "bob@x.org">>}

SessionTTLs == {1}

\* claims of the tokens clients hold: without a subject, and one per user
SessionClaims ==
    {[NoClaims EXCEPT !.has_uid = TRUE, !.uid = 1]}
    \cup {[NoClaims EXCEPT !.has_sub = TRUE, !.sub = u] : u \in Usernames}

NextAuth ==
    \/ AdvanceMinute
    \/ \E d \in SessionClaims, t \in SessionTTLs : CreateToken(d, t)
    \/ \E a \in Accounts : Register(a[1], a[2], <<"s3cret!">>, "saltA")
    \/ \E i \in DOMAIN users : Deactivate(i)
    \/ \E i \in DOMAIN users : GrantAdmin(i)
    \/ \E i \in DOMAIN users : RemoveUser(i)
    \/ \E h \in RequestHeaders : GetMe(h)
    \/ \E h \in RequestHeaders : AdminOnly(h)
    \/ \E h \in RequestHeaders : OptionalAuth(h)

(***************************************************************************)
(* POST /predict: app/api/routes_predict.py                                *)
(***************************************************************************)
MaxPredictions == 1     \* rows the predictions table is filled up to

\* the cars clients ask about: one that passes validation, one that does not
Cars ==
    {[NoCar EXCEPT !.company = "Maruti", !.year = 2015,
                   !.km_driven = 50000, !.seats = 5],
     [NoCar EXCEPT !.company = "Maruti", !.year = 1800,
                   !.km_driven = 50000, !.seats = 5]}

\* Authorization headers clients send to the prediction routes
PredictHeaders ==
    {Absent,
     Sent(<<"B", "e", "a", "r", "e", "r", " ">> \o JwtText),
     Sent(<<"B", "e", "a", "r", "e", "r", " ", "a", "b", "c">>)}

\* X-API-Key headers clients send with a request
RequestKeys == {Absent, Sent(API_KEY), Sent(<<"w", "r", "o", "n", "g">>)}

\* the row predict_price() adds
NewPrediction(preds, user, car, price) ==
    [id |-> Len(preds) + 1, user_id |-> user.id, car |-> car,
     predicted_price |-> price]

\* predict_price(car, user, db): the body of the handler
Predicted(car, user, preds, est) ==
    IF est.raised # ""
    THEN [raised |-> est.raised, message |-> est.message,
          predictions |-> preds, cache |-> est.cache, car |-> car,
          price |-> est.price, looked |-> est.looked,
          computed |-> est.computed]
    ELSE [raised |-> "", message |-> "",
          predictions |-> Append(preds,
                                 NewPrediction(preds, user, car, est.price)),
          cache |-> est.cache, car |-> car, price |-> est.price,
          looked |-> est.looked, computed |-> est.computed]

predict_price(car, user, preds, entries, modelUp) ==
    Predicted(car, user, preds, predict_car_price(car, entries, modelUp))

\* POST /predict: the response, and what the request leaves in the stores
PredictBase(h, k, dep) ==
    [RespIdle EXCEPT !.route = "POST /predict", !.header = h, !.key = k,
                     !.stage = dep.stage, !.token = dep.token,
                     !.order = dep.order]

Refused(base, dep) ==
    Rendered([base EXCEPT !.status = dep.status, !.detail = dep.detail,
                          !.exc = "HTTPException", !.message = dep.detail])

HandlerRan(base, dep, run) ==
    [base EXCEPT !.user = dep.user, !.handled = TRUE,
                 !.order = Append(dep.order, "handler"), !.car = run.car,
                 !.price = run.price, !.looked = run.looked,
                 !.computed = run.computed]

Handled(base, dep, run) ==
    IF run.raised # ""
    THEN Rendered([HandlerRan(base, dep, run) EXCEPT
                      !.status = StatusOfClass(run.raised),
                      !.exc = run.raised, !.message = run.message])
    ELSE [HandlerRan(base, dep, run) EXCEPT !.status = 200]

PredictRun_Eager(h, k, dep, run) ==
    IF dep.status # 200
    THEN [resp |-> Refused(PredictBase(h, k, dep), dep),
          predictions |-> predictions, cache |-> run.cache]
    ELSE [resp |-> Handled(PredictBase(h, k, dep), dep, run),
          predictions |-> run.predictions, cache |-> run.cache]

PredictRun(h, k, dep, run) ==
    IF dep.status # 200
    THEN [resp |-> Refused(PredictBase(h, k, dep), dep),
          predictions |-> predictions, cache |-> cache]
    ELSE [resp |-> Handled(PredictBase(h, k, dep), dep, run),
          predictions |-> run.predictions, cache |-> run.cache]

PredictAfter(h, k, car, modelUp, dep) ==
    PredictRun(h, k, dep,
               predict_price(car, dep.user, predictions, cache, modelUp))

PredictStep(h, k, car, modelUp) ==
    PredictAfter(h, k, car, modelUp, Protect(h, k, tok, now, users, apiKey))

PredictApply(st) ==
    /\ Len(st.predictions) <= MaxPredictions
    /\ resp' = st.resp
    /\ predictions' = st.predictions
    /\ cache' = st.cache

Predict(h, k, car, modelUp) ==
    /\ CarriesToken(h) => tok.fmt # "none"
    /\ PredictApply(PredictStep(h, k, car, modelUp))
    /\ tokMeta' = Accepted(tokMeta, resp')
    /\ tkCall' = TkIdle
    /\ UNCHANGED <<pending, now, tok, pwVars, gateVars, extCall, users>>

NextPredict ==
    \/ AdvanceMinute
    \/ \E d \in SessionClaims, t \in SessionTTLs : CreateToken(d, t)
    \/ \E a \in Accounts : Register(a[1], a[2], <<"s3cret!">>, "saltA")
    \/ \E i \in DOMAIN users : Deactivate(i)
    \/ \E h \in PredictHeaders, k \in RequestKeys, c \in Cars,
          m \in BOOLEAN : Predict(h, k, c, m)

(***************************************************************************)
(* Account routes: app/api/routes_auth.py                                  *)
(***************************************************************************)
DefaultExpireMinutes == 30     \* create_token(data, expire_minutes=30)

LoginRefused == "Invalid username or password"

\* the claims login() puts in the token
LoginClaims(user) ==
    [NoClaims EXCEPT !.has_sub = TRUE, !.sub = user.username,
                     !.has_uid = TRUE, !.uid = user.id]

\* login(auth, db), from the row the username query returned
LoginChecked(user, password, nowTicks) ==
    IF user = NoUser
    THEN [status |-> 401, detail |-> LoginRefused, token |-> NoToken,
          user |-> NoUser]
    ELSE IF ~verify_password(password, user.hashed_password).ret
    THEN [status |-> 401, detail |-> LoginRefused, token |-> NoToken,
          user |-> NoUser]
    ELSE IF ~user.is_active
    THEN [status |-> 403, detail |-> "User account is deactivated",
          token |-> NoToken, user |-> NoUser]
    ELSE [status |-> 200, detail |-> "",
          token |-> create_token(LoginClaims(user), DefaultExpireMinutes,
                                 nowTicks).token,
          user |-> user]

login(username, password, db, nowTicks) ==
    LoginChecked(FindByUsername(db, username), password, nowTicks)

\* db.query(User).filter(User.email == email, User.id != user.id).first()
OtherWithEmail(db, email, id) ==
    \E i \in DOMAIN db : db[i].email = email /\ db[i].id # id

\* db.commit() of the changed row
SetRow(db, row) == [i \in DOMAIN db |-> IF db[i].id = row.id THEN row ELSE db[i]]

\* the fields update_user_profile() reports as updated
ProfileFields(email, password) ==
    (IF email # "" THEN <<"email">> ELSE <<>>)
        \o (IF password # <<>> THEN <<"password">> ELSE <<>>)

\* a row whose hash is made again, with a new salt, on every update
ProfileRow_Rehash(email, password, salt, user) ==
    [user EXCEPT
        !.email = IF email # "" THEN email ELSE @,
        !.hashed_password = IF password # <<>>
                            THEN hash_password(password, salt)
                            ELSE hash_password(Argon2Secret(@), salt)]

\* the row update_user_profile() leaves
ProfileRow(email, password, salt, user) ==
    [user EXCEPT
        !.email = IF email # "" THEN email ELSE @,
        !.hashed_password = IF password # <<>>
                            THEN hash_password(password, salt) ELSE @]

\* an update_user_profile() that has written the email when it refuses
\* the password
update_user_profile_EmailKept(email, password, salt, user, db) ==
    IF email # "" /\ OtherWithEmail(db, email, user.id)
    THEN [status |-> 400, detail |-> "Email already in use", db |-> db,
          user |-> user, updated_fields |-> <<>>]
    ELSE IF password # <<>> /\ StrLen(password) < MinPasswordLen
    THEN [status |-> 400,
          detail |-> "Password must be at least 6 characters long",
          db |-> SetRow(db, ProfileRow(email, <<>>, salt, user)),
          user |-> user, updated_fields |-> <<>>]
    ELSE [status |-> 200, detail |-> "",
          db |-> SetRow(db, ProfileRow(email, password, salt, user)),
          user |-> ProfileRow(email, password, salt, user),
          updated_fields |-> ProfileFields(email, password)]

\* update_user_profile(email, password, user, db): "" and <<>> stand for
\* a parameter left out; nothing is committed when the handler raises
update_user_profile(email, password, salt, user, db) ==
    IF email # "" /\ OtherWithEmail(db, email, user.id)
    THEN [status |-> 400, detail |-> "Email already in use", db |-> db,
          user |-> user, updated_fields |-> <<>>]
    ELSE IF password # <<>> /\ StrLen(password) < MinPasswordLen
    THEN [status |-> 400,
          detail |-> "Password must be at least 6 characters long",
          db |-> db, user |-> user, updated_fields |-> <<>>]
    ELSE [status |-> 200, detail |-> "",
          db |-> SetRow(db, ProfileRow(email, password, salt, user)),
          user |-> ProfileRow(email, password, salt, user),
          updated_fields |-> ProfileFields(email, password)]

LoginResponse(out) ==
    Answer([RespIdle EXCEPT !.route = "POST /login", !.status = out.status,
                            !.detail = out.detail, !.stage = "done",
                            !.token = out.token, !.user = out.user,
                            !.handled = TRUE])

LoginApply(username, password, out) ==
    /\ resp' = [LoginResponse(out) EXCEPT
                   !.form = [username |-> username, email |-> "",
                             password |-> password]]
    /\ tok' = IF out.status = 200 THEN out.token ELSE tok
    /\ tokMeta' = IF out.status = 200
                  THEN [origin |-> "issued", at |-> now,
                        ttl |-> DefaultExpireMinutes,
                        data |-> LoginClaims(out.user), tampered |-> FALSE,
                        accepted |-> FALSE, logged_out |-> FALSE]
                  ELSE tokMeta

\* POST /login
Login(username, password) ==
    /\ LoginApply(username, password, login(username, password, users, now))
    /\ tkCall' = TkIdle
    /\ UNCHANGED <<pending, storeVars, now, pwVars, gateVars, extCall, users>>

ProfileDone(base, out) ==
    Answer([base EXCEPT !.status = out.status, !.detail = out.detail,
                        !.user = out.user,
                        !.updated_fields = out.updated_fields])

ProfileRun(h, auth, out) ==
    IF auth.status # 200
    THEN [resp |-> AuthResponse("PUT /me/update", h, auth), users |-> users]
    ELSE [resp |-> ProfileDone(AuthResponse("PUT /me/update", h, auth), out),
          users |-> out.db]

ProfileAfter(h, email, password, salt, auth) ==
    ProfileRun(h, auth,
               update_user_profile(email, password, salt, auth.user, users))

ProfileStep(h, email, password, salt) ==
    ProfileAfter(h, email, password, salt, Authenticate(h, tok, now, users))

ProfileApply(st, email, password) ==
    /\ resp' = [st.resp EXCEPT !.form = [username |-> st.resp.user.username,
                                         email |-> email,
                                         password |-> password]]
    /\ users' = st.users

\* PUT /me/update
UpdateProfile(h, email, password, salt) ==
    /\ CarriesToken(h) => tok.fmt # "none"
    /\ ProfileApply(ProfileStep(h, email, password, salt), email, password)
    /\ tokMeta' = Accepted(tokMeta, resp')
    /\ tkCall' = TkIdle
    /\ UNCHANGED <<pending, storeVars, now, tok, pwVars, gateVars, extCall>>

LogoutResponse(h) ==
    AuthResponse("POST /logout", h, Authenticate(h, tok, now, users))

\* the token in the client's hands has now been used to log out
LoggedOut(meta, r) ==
    [meta EXCEPT !.accepted = @ \/ r.status = 200,
                 !.logged_out = @ \/ r.status = 200]

\* POST /logout
Logout(h) ==
    /\ CarriesToken(h) => tok.fmt # "none"
    /\ resp' = LogoutResponse(h)
    /\ tokMeta' = LoggedOut(tokMeta, resp')
    /\ tkCall' = TkIdle
    /\ UNCHANGED <<pending, storeVars, now, tok, pwVars, gateVars, extCall, users>>

\* what clients of the account routes send
AccountHeaders ==
    {Absent, Sent(<<"B", "e", "a", "r", "e", "r", " ">> \o JwtText)}

ProfileEmails == {"", "bob@x.org", "carol@x.org"}

ProfilePasswords == {<<>>, <<"abc">>, <<"n3wpass!">>}

\* passwords typed at login: the ones users chose, and for each stored hash
\* an encoded hash made of it
LoginPasswords(db) ==
    {<<"s3cret!">>, <<"n3wpass!">>}
        \cup {Argon2Encode(WeakParams, "saltC", db[i].hashed_password) :
                 i \in DOMAIN db}

NextAccount ==
    \/ \E d \in SessionClaims, t \in SessionTTLs : CreateToken(d, t)
    \/ \E a \in Accounts : Register(a[1], a[2], <<"s3cret!">>, "saltA")
    \/ \E u \in Usernames, p \in LoginPasswords(users) : Login(u, p)
    \/ \E h \in AccountHeaders : GetMe(h)
    \/ \E h \in AccountHeaders, e \in ProfileEmails,
          p \in ProfilePasswords : UpdateProfile(h, e, p, "saltB")
    \/ \E h \in AccountHeaders : Logout(h)
    \/ \E c \in Cars : Predict(Sent(<<"B", "e", "a", "r", "e", "r", " ">>
                                      \o JwtText),
                               Sent(API_KEY), c, TRUE)

(***************************************************************************)
(* The prediction service called on its own, over a cache whose entries    *)
(* expire                                                                  *)
(***************************************************************************)
MaxBatch == 2      \* longest list handed to batch_predict

ServiceCars ==
    {[NoCar EXCEPT !.company = "Maruti", !.year = 2015,
                   !.km_driven = 50000, !.seats = 5],
     [NoCar EXCEPT !.company = "Scrap", !.year = 1990,
                   !.km_driven = 50000, !.seats = 5],
     [NoCar EXCEPT !.company = "Maruti", !.year = 1800,
                   !.km_driven = 50000, !.seats = 5],
     [NoCar EXCEPT !.company = "Maruti", !.year = 2015,
                   !.km_driven = -10000, !.seats = 5],
     [NoCar EXCEPT !.company = "Maruti", !.year = 2015,
                   !.km_driven = 50000, !.seats = 12],
     [NoCar EXCEPT !.company = "Maruti", !.year = 2015,
                   !.missing_fields = {"km_driven", "seats"}]}

Batches ==
    UNION {[1..n -> ServiceCars] : n \in 0..MaxBatch}

ServiceAnswer(car, est) ==
    [RespIdle EXCEPT !.route = "predict_car_price", !.car = car,
                     !.exc = est.raised, !.message = est.message,
                     !.price = est.price, !.looked = est.looked,
                     !.computed = est.computed]

ServiceApply(car, est) ==
    /\ resp' = ServiceAnswer(car, est)
    /\ cache' = est.cache

\* predict_car_price(data)
PredictCarPrice(car, modelUp) ==
    /\ ServiceApply(car, predict_car_price(car, cache, modelUp))
    /\ UNCHANGED <<pending, predictions, tkVars, pwVars, gateVars, extCall, users>>

BatchApply(data_list, out) ==
    /\ resp' = [RespIdle EXCEPT !.route = "batch_predict",
                                !.cars = data_list,
                                !.results = out.results]
    /\ cache' = out.cache

\* batch_predict(data_list)
BatchPredict(data_list, modelUp) ==
    /\ BatchApply(data_list, batch_predict(data_list, cache, modelUp))
    /\ UNCHANGED <<pending, predictions, tkVars, pwVars, gateVars, extCall, users>>

\* the time to live of a cache entry runs out
CacheExpire(e) ==
    /\ cache' = cache \ {e}
    /\ resp' = RespIdle
    /\ UNCHANGED <<pending, predictions, tkVars, pwVars, gateVars, extCall, users>>

(***************************************************************************)
(* POST /predict/batch: app/api/routes_predict.py                          *)
(***************************************************************************)
MaxBatchRows == 2     \* rows the predictions table is filled up to here

\* the loop of predict_batch() that saves a row for every prediction that
\* is not None
RECURSIVE SaveAll(_, _, _, _, _)
SaveAll(cars, results, user, preds, ids) ==
    IF cars = <<>> \/ results = <<>>
    THEN [predictions |-> preds, saved_ids |-> ids]
    ELSE IF Head(results).some
    THEN SaveAll(Tail(cars), Tail(results), user,
                 Append(preds, NewPrediction(preds, user, Head(cars),
                                             Head(results).price)),
                 Append(ids, Len(preds) + 1))
    ELSE SaveAll(Tail(cars), Tail(results), user, preds, ids)

\* f'{p:,.2f}' if p else 'Failed'
Failed == [failed |-> TRUE, price |-> 0]
Label(p) ==
    IF p.some /\ p.price # 0 THEN [failed |-> FALSE, price |-> p.price]
    ELSE Failed

BatchSaved(cars, out, saved) ==
    [predictions |-> saved.predictions, cache |-> out.cache,
     results |-> out.results, saved_ids |-> saved.saved_ids,
     labels |-> [i \in DOMAIN out.results |-> Label(out.results[i])]]

BatchOf(cars, user, preds, out) ==
    BatchSaved(cars, out, SaveAll(cars, out.results, user, preds, <<>>))

\* predict_batch(request, user, db): the body of the handler
predict_batch(cars, user, preds, entries, modelUp) ==
    BatchOf(cars, user, preds, batch_predict(cars, entries, modelUp))

BatchBase(h, k, dep) ==
    [PredictBase(h, k, dep) EXCEPT !.route = "POST /predict/batch"]

BatchRun(h, k, cars, dep, run) ==
    IF dep.status # 200
    THEN [resp |-> Refused(BatchBase(h, k, dep), dep),
          predictions |-> predictions, cache |-> cache]
    ELSE [resp |-> [BatchBase(h, k, dep) EXCEPT
                       !.status = 200, !.user = dep.user, !.handled = TRUE,
                       !.order = Append(dep.order, "handler"),
                       !.cars = cars, !.results = run.results,
                       !.labels = run.labels, !.saved_ids = run.saved_ids],
          predictions |-> run.predictions, cache |-> run.cache]

BatchAfter(h, k, cars, modelUp, dep) ==
    BatchRun(h, k, cars, dep,
             predict_batch(cars, dep.user, predictions, cache, modelUp))

BatchStep(h, k, cars, modelUp) ==
    BatchAfter(h, k, cars, modelUp, Protect(h, k, tok, now, users, apiKey))

BatchRouteApply(st) ==
    /\ Len(st.predictions) <= MaxBatchRows
    /\ resp' = st.resp
    /\ predictions' = st.predictions
    /\ cache' = st.cache

\* POST /predict/batch
PredictBatch(h, k, cars, modelUp) ==
    /\ CarriesToken(h) => tok.fmt # "none"
    /\ BatchRouteApply(BatchStep(h, k, cars, modelUp))
    /\ tokMeta' = Accepted(tokMeta, resp')
    /\ tkCall' = TkIdle
    /\ UNCHANGED <<pending, now, tok, pwVars, gateVars, extCall, users>>

\* the service is called directly, and by POST /predict for alice
NextService ==
    \/ \E c \in ServiceCars, m \in BOOLEAN : PredictCarPrice(c, m)
    \/ \E l \in Batches, m \in BOOLEAN : BatchPredict(l, m)
    \/ \E e \in cache : CacheExpire(e)
    \/ Register("alice", "alice@x.org", <<"s3cret!">>, "saltA")
    \/ CreateToken([NoClaims EXCEPT !.has_sub = TRUE, !.sub = "alice"], 1)
    \/ \E c \in ServiceCars, m \in BOOLEAN :
          Predict(Sent(<<"B", "e", "a", "r", "e", "r", " ">> \o JwtText),
                  Sent(API_KEY), c, m)
    \/ \E l \in Batches, m \in BOOLEAN :
          PredictBatch(Sent(<<"B", "e", "a", "r", "e", "r", " ">>
                               \o JwtText),
                       Sent(API_KEY), l, m)

(***************************************************************************)
(* register and update_user_profile served by several workers at a time:   *)
(* a request runs its queries, and commits in a later step.  The users     *)
(* table has unique indexes on username and email (app/database/models.py) *)
(* and refuses the commit of a row that breaks one with an IntegrityError. *)
(***************************************************************************)
IntegrityError == "UNIQUE constraint failed"

\* db.add(new_user); db.commit() against the unique indexes
InsertUser(db, f, salt) ==
    IF FindByUsername(db, f.username) # NoUser
          \/ FindByEmail(db, f.email) # NoUser
    THEN [raised |-> "SQLAlchemyError", db |-> db, user |-> NoUser]
    ELSE [raised |-> "", user |-> NewUser(db, f.username, f.email,
                                          f.password, salt),
          db |-> Append(db, NewUser(db, f.username, f.email, f.password,
                                    salt))]

\* db.commit() of a changed email against the unique index
UpdateEmail(db, id, email) ==
    IF OtherWithEmail(db, email, id)
    THEN [raised |-> "SQLAlchemyError", db |-> db]
    ELSE [raised |-> "",
          db |-> [i \in DOMAIN db |->
                     IF db[i].id = id THEN [db[i] EXCEPT !.email = email]
                     ELSE db[i]]]

\* the answer to a request whose commit was made or refused
Committed(route, f, out) ==
    IF out.raised # ""
    THEN Rendered([RespIdle EXCEPT !.route = route, !.form = f,
                                   !.stage = "done", !.handled = TRUE,
                                   !.exc = out.raised,
                                   !.message = IntegrityError])
    ELSE [RespIdle EXCEPT !.route = route, !.form = f, !.stage = "done",
                          !.handled = TRUE,
                          !.status = IF route = "POST /register" THEN 201
                                     ELSE 200]

RegisterChecked(w, f, out) ==
    IF out.status # 201
    THEN /\ resp' = [RegisterAnswer(out) EXCEPT !.form = f]
         /\ pending' = pending
    ELSE /\ resp' = RespIdle
         /\ pending' = [pending EXCEPT ![w] = [op |-> "register",
                                               user_id |-> 0, form |-> f]]

\* POST /register up to its last query
RegisterBegin(w, username, email, password) ==
    /\ pending[w] = NoRequest
    /\ RegisterChecked(w, [username |-> username, email |-> email,
                           password |-> password],
                       register(username, email, password, "saltA", users))
    /\ tkCall' = TkIdle
    /\ UNCHANGED <<storeVars, now, tok, tokMeta, pwVars, gateVars, extCall,
                   users>>

RegisterDone(w, out) ==
    /\ Len(out.db) <= MaxUsers
    /\ users' = out.db
    /\ resp' = Committed("POST /register", pending[w].form, out)
    /\ pending' = [pending EXCEPT ![w] = NoRequest]

\* POST /register from db.add(new_user) on
RegisterCommit(w) ==
    /\ pending[w].op = "register"
    /\ RegisterDone(w, InsertUser(users, pending[w].form, "saltA"))
    /\ tkCall' = TkIdle
    /\ UNCHANGED <<storeVars, now, tok, tokMeta, pwVars, gateVars, extCall>>

UpdateChecked(w, h, email, auth) ==
    IF auth.status # 200
    THEN /\ resp' = AuthResponse("PUT /me/update", h, auth)
         /\ pending' = pending
    ELSE IF OtherWithEmail(users, email, auth.user.id)
    THEN /\ resp' = ProfileDone(AuthResponse("PUT /me/update", h, auth),
                                [status |-> 400,
                                 detail |-> "Email already in use",
                                 user |-> auth.user,
                                 updated_fields |-> <<>>])
         /\ pending' = pending
    ELSE /\ resp' = RespIdle
         /\ pending' = [pending EXCEPT
                           ![w] = [op |-> "update", user_id |-> auth.user.id,
                                   form |-> [username |-> auth.user.username,
                                             email |-> email,
                                             password |-> <<>>]]]

\* PUT /me/update?email=... up to user.email = email
UpdateBegin(w, h, email) ==
    /\ pending[w] = NoRequest
    /\ CarriesToken(h) => tok.fmt # "none"
    /\ UpdateChecked(w, h, email, Authenticate(h, tok, now, users))
    /\ tkCall' = TkIdle
    /\ UNCHANGED <<storeVars, now, tok, tokMeta, pwVars, gateVars, extCall,
                   users>>

UpdateDone(w, out) ==
    /\ users' = out.db
    /\ resp' = Committed("PUT /me/update", pending[w].form, out)
    /\ pending' = [pending EXCEPT ![w] = NoRequest]

\* PUT /me/update from db.commit() on
UpdateCommit(w) ==
    /\ pending[w].op = "update"
    /\ UpdateDone(w, UpdateEmail(users, pending[w].user_id,
                                 pending[w].form.email))
    /\ tkCall' = TkIdle
    /\ UNCHANGED <<storeVars, now, tok, tokMeta, pwVars, gateVars, extCall>>

RaceEmails == {"alice@x.org", "bob@x.org", "carol@x.org"}

NextRace ==
    \/ \E d \in SessionClaims, t \in SessionTTLs : CreateToken(d, t)
    \/ \E w \in Workers, u \in Usernames, e \in RaceEmails :
          RegisterBegin(w, u, e, <<"s3cret!">>)
    \/ \E w \in Workers : RegisterCommit(w)
    \/ \E w \in Workers, h \in AccountHeaders, e \in RaceEmails :
          UpdateBegin(w, h, e)
    \/ \E w \in Workers : UpdateCommit(w)

(***************************************************************************)
(* GET /predictions/history and GET /predictions/{prediction_id}           *)
(***************************************************************************)
RECURSIVE Reversed(_)
Reversed(seq) ==
    IF seq = <<>> THEN <<>> ELSE Append(Reversed(Tail(seq)), Head(seq))

OwnedBy(row, id) == row.user_id = id

\* .filter(user_id == user.id).order_by(created_at.desc())
\* .offset(skip).limit(limit).all()
get_prediction_history(user, preds, limit, skip) ==
    LET own == Reversed(SelectSeq(preds, LAMBDA row : OwnedBy(row, user.id)))
    IN  SubSeq(own, skip + 1,
               IF skip + limit < Len(own) THEN skip + limit ELSE Len(own))

\* a get_prediction_detail() without the check of the owner
get_prediction_detail_NoOwnerCheck(prediction_id, user, preds) ==
    IF ~\E i \in DOMAIN preds : preds[i].id = prediction_id
    THEN [error |-> "Prediction not found", rows |-> <<>>]
    ELSE [error |-> "",
          rows |-> SelectSeq(preds, LAMBDA row : row.id = prediction_id)]

\* get_prediction_detail(prediction_id, user, db): the row it shows, if any
get_prediction_detail(prediction_id, user, preds) ==
    IF ~\E i \in DOMAIN preds : preds[i].id = prediction_id
    THEN [error |-> "Prediction not found", rows |-> <<>>]
    ELSE IF \E i \in DOMAIN preds :
               /\ preds[i].id = prediction_id
               /\ preds[i].user_id # user.id
               /\ ~user.is_admin
    THEN [error |-> "Access denied", rows |-> <<>>]
    ELSE [error |-> "",
          rows |-> SelectSeq(preds, LAMBDA row : row.id = prediction_id)]

\* the answer of a route of the predictions table: refused by a
\* dependency, or what the handler returned
ShownBase(route, h, k, dep) ==
    [PredictBase(h, k, dep) EXCEPT !.route = route]

Shown(route, h, k, dep, out) ==
    IF dep.status # 200
    THEN Refused(ShownBase(route, h, k, dep), dep)
    ELSE [ShownBase(route, h, k, dep) EXCEPT
             !.status = 200, !.user = dep.user, !.handled = TRUE,
             !.order = Append(dep.order, "handler"),
             !.rows = out.rows, !.body = [NoBody EXCEPT !.error = out.error]]

DetailAfter(h, k, prediction_id, dep) ==
    Shown("GET /predictions/{prediction_id}", h, k, dep,
          get_prediction_detail(prediction_id, dep.user, predictions))

\* GET /predictions/{prediction_id}
GetPredictionDetail(h, k, prediction_id) ==
    /\ CarriesToken(h) => tok.fmt # "none"
    /\ resp' = DetailAfter(h, k, prediction_id,
                           Protect(h, k, tok, now, users, apiKey))
    /\ tokMeta' = Accepted(tokMeta, resp')
    /\ tkCall' = TkIdle
    /\ UNCHANGED <<pending, storeVars, now, tok, pwVars, gateVars, extCall,
                   users>>

HistoryAfter(h, k, limit, skip, dep) ==
    Shown("GET /predictions/history", h, k, dep,
          [error |-> "",
           rows |-> get_prediction_history(dep.user, predictions, limit,
                                           skip)])

\* GET /predictions/history
GetPredictionHistory(h, k, limit, skip) ==
    /\ CarriesToken(h) => tok.fmt # "none"
    /\ resp' = HistoryAfter(h, k, limit, skip,
                            Protect(h, k, tok, now, users, apiKey))
    /\ tokMeta' = Accepted(tokMeta, resp')
    /\ tkCall' = TkIdle
    /\ UNCHANGED <<pending, storeVars, now, tok, pwVars, gateVars, extCall,
                   users>>

DefaultLimit == 10     \* limit: int = 10

OwnerBatches ==
    {<<[NoCar EXCEPT !.company = "Maruti", !.year = 2015,
                     !.km_driven = 50000, !.seats = 5]>>}

\* two users, one of them perhaps an admin, and the rows they saved
NextOwner ==
    \/ \E d \in SessionClaims, t \in SessionTTLs : CreateToken(d, t)
    \/ \E a \in Accounts : Register(a[1], a[2], <<"s3cret!">>, "saltA")
    \/ \E i \in DOMAIN users : GrantAdmin(i)
    \/ \E h \in AccountHeaders, l \in OwnerBatches :
          PredictBatch(h, Sent(API_KEY), l, TRUE)
    \/ \E h \in AccountHeaders, k \in RequestKeys,
          id \in 1..(MaxBatchRows + 1) : GetPredictionDetail(h, k, id)
    \/ \E h \in AccountHeaders, limit \in {1, DefaultLimit},
          skip \in {0, 1} :
          GetPredictionHistory(h, Sent(API_KEY), limit, skip)

\* sessions that are logged out of while the clock runs
NextLogout ==
    \/ AdvanceMinute
    \/ \E d \in SessionClaims, t \in SessionTTLs : CreateToken(d, t)
    \/ \E a \in Accounts : Register(a[1], a[2], <<"s3cret!">>, "saltA")
    \/ \E h \in RequestHeaders : GetMe(h)
    \/ \E h \in RequestHeaders : Logout(h)
    \/ \E h \in AccountHeaders, e \in ProfileEmails :
          UpdateProfile(h, e, <<>>, "saltB")

NextApp ==
    \/ AdvanceMinute
    \/ \E d \in ClaimsData, t \in TTLs : CreateToken(d, t)
    \/ \E c \in Tampered(tok.claims) : TamperPayload(c)
    \/ \E t \in ForeignTokens(now) : PresentForeign(t)
    \/ \E u \in Usernames, e \in Emails, p \in RegisterPasswords :
          Register(u, e, p, "saltA")
    \/ \E h \in RequestHeaders : GetMe(h)

(***************************************************************************)
(* Specifications                                                          *)
(***************************************************************************)
Init == PwInit /\ TkInit /\ GateInit /\ AppInit

InitGate == PwInit /\ TkInit /\ GateInitEnv /\ AppInit

\* the password hasher on its own
SpecPwd == Init /\ [][NextPwd]_vars

\* the token service on its own
SpecTok == Init /\ [][NextTok]_vars

\* the API-key gate on its own
SpecGate == InitGate /\ [][NextGate]_vars

\* the Extract step on its own
SpecExtract == Init /\ [][NextExtract]_vars

\* the application
Spec == Init /\ [][NextApp]_vars

\* the authenticator over a changing users table
SpecAuth == Init /\ [][NextAuth]_vars

\* the protected prediction route
SpecPredict == Init /\ [][NextPredict]_vars

\* the stored predictions and who may read them
SpecOwner == Init /\ [][NextOwner]_vars

\* logout among the other authenticated routes, under the clock
SpecLogout == Init /\ [][NextLogout]_vars

\* register and profile updates served concurrently
SpecRace == Init /\ [][NextRace]_vars

\* the prediction service and its cache
SpecService == Init /\ [][NextService]_vars

\* the account routes and the prediction route over one users table
SpecAccount == Init /\ [][NextAccount]_vars

(***************************************************************************)
(* Properties                                                              *)
(***************************************************************************)
\* C1: password round trip: verifying a password against the hash that
\* hash_password made of that same password returns True.
C1_RoundTrip ==
    (/\ pwCall.fn = "verify_password"
     /\ pwStored.set
     /\ pwCall.hash = pwStored.hash
     /\ pwCall.password = pwStored.of)
    => pwCall.ret = TRUE

\* C7: a failed verification is a boolean: verify_password returns False
\* and raises nothing when the hash is that of another password, is
\* malformed, or belongs to another hashing scheme.
HashOfOther(p, h) == Argon2WellFormed(h) /\ Argon2Secret(h) # p
MalformedHash(h) == ~Argon2WellFormed(h)
C7_FailureIsFalse ==
    (/\ pwCall.fn = "verify_password"
     /\ \/ HashOfOther(pwCall.password, pwCall.hash)
        \/ MalformedHash(pwCall.hash))
    => (pwCall.ret = FALSE /\ pwCall.raised = "")

(***************************************************************************)
(* Token service claims (under SpecTok)                                    *)
(***************************************************************************)
IssuedUntouched == tokMeta.origin = "issued" /\ ~tokMeta.tampered

\* C2: token round trip: a token made by create_token from claims with a
\* subject and a positive ttl, verified at the instant of issuance, gives
\* back claims with that subject.
C2_TokenRoundTrip ==
    (/\ tkCall.fn = "verify_token"
     /\ IssuedUntouched
     /\ now = tokMeta.at
     /\ tokMeta.data.has_sub)
    => (/\ tkCall.some
        /\ tkCall.payload.has_sub
        /\ tkCall.payload.sub = tokMeta.data.sub)

C2_Witness ==
    /\ tkCall.fn = "verify_token"
    /\ IssuedUntouched
    /\ now = tokMeta.at
    /\ tokMeta.data.has_sub
    /\ tkCall.some
    /\ tkCall.payload.sub = "alice"

IssuedTokenChecked ==
    /\ tkCall.fn \in {"verify_token", "get_current_user_payload"}
    /\ IssuedUntouched

ReportedInvalid ==
    /\ ~tkCall.some
    /\ tkCall.fn = "get_current_user_payload" => tkCall.status = 401

\* C3 as stated: a token issued at t0 with ttl t minutes is invalid at every
\* time later than t0 + t minutes, and a request carrying it gets 401.
C3_InvalidAtEveryLaterTime ==
    (/\ IssuedTokenChecked
     /\ now > tokMeta.at + tokMeta.ttl * TicksPerMinute)
    => ReportedInvalid

\* C3 amended: a token issued at t0 with ttl t minutes is invalid at every
\* time at least one whole second later than t0 + t minutes, and a request
\* carrying it gets 401.
C3_InvalidOneSecondLater ==
    (/\ IssuedTokenChecked
     /\ now >= tokMeta.at + tokMeta.ttl * TicksPerMinute + TicksPerSecond)
    => ReportedInvalid

C3_Witness ==
    /\ tkCall.fn = "get_current_user_payload"
    /\ IssuedUntouched
    /\ tokMeta.ttl = 1
    /\ now >= tokMeta.at + 2 * TicksPerMinute
    /\ tkCall.status = 401
    /\ tkCall.caught = "ExpiredSignatureError"

\* C4: a token whose payload was changed after signing fails at the
\* signature check, before the expiry is looked at, expired or not; what
\* verify_token returns is the same None as for an expired token.
C4_TamperedFailsAtSignature ==
    /\ (tkCall.fn = "verify_token" /\ tokMeta.tampered)
       => (tkCall.stage = "signature" /\ tkCall.caught = "JWTError")
    /\ (tkCall.fn = "verify_token"
        /\ (tokMeta.tampered \/ tkCall.caught = "ExpiredSignatureError"))
       => (~tkCall.some /\ tkCall.payload = NoClaims /\ tkCall.raised = "")

C4_Witness ==
    /\ tkCall.fn = "verify_token"
    /\ tokMeta.tampered
    /\ tok.claims.has_exp
    /\ tok.claims.exp < WholeSeconds(now)
    /\ tkCall.stage = "signature"
    /\ ~tkCall.some

SignatureHolds(t) ==
    /\ t.fmt = "jws"
    /\ t.alg = JWT_ALGORITHM
    /\ t.mac = Hmac(JWT_SECRET_KEY, JWT_ALGORITHM, t.claims)

ExpiryHolds(t, nowTicks) ==
    t.claims.has_exp => t.claims.exp >= WholeSeconds(nowTicks)

\* C5: verify_token is total: it returns the token's claims exactly when the
\* signature matches the configured secret and algorithm and the expiry
\* has not passed, returns None otherwise, and raises nothing.
C5_VerifyTotal ==
    tkCall.fn = "verify_token"
    => (/\ tkCall.raised = ""
        /\ tkCall.some <=> (SignatureHolds(tkCall.token)
                            /\ ExpiryHolds(tkCall.token, now))
        /\ tkCall.some => tkCall.payload = tkCall.token.claims
        /\ ~tkCall.some => tkCall.payload = NoClaims)

C5_Witness ==
    /\ tkCall.fn = "verify_token"
    /\ tokMeta.origin = "foreign"
    /\ tok.fmt = "jws"
    /\ tok.alg = JWT_ALGORITHM
    /\ ExpiryHolds(tok, now)
    /\ ~tkCall.some
    /\ tkCall.stage = "signature"

\* C6: create_token with ttl <= 0 fails with ValueError (InvalidParameter)
\* and hands out no token.
C6_NonPositiveTtlRejected ==
    (tkCall.fn = "create_token" /\ tkCall.ttl <= 0)
    => (/\ tkCall.raised = "ValueError"
        /\ tkCall.token = NoToken
        /\ tok = NoToken)

C6_Witness ==
    /\ tkCall.fn = "create_token"
    /\ tkCall.ttl = 0
    /\ tkCall.raised = "ValueError"
    /\ tok = NoToken

(***************************************************************************)
(* API-key gate claims (under SpecGate)                                    *)
(***************************************************************************)
GateMissing == "API key is required. Provide X-API-Key header."
GateInvalid == "Invalid API key"

\* C8 as stated: the gate lets k through exactly when k equals the
\* configured key character for character; an absent or empty k is refused
\* as missing, every other k as invalid.
C8_ExactMatch ==
    gateCall.fn = "get_api_key"
    => LET k == gateCall.header
       IN  /\ gateCall.status = 200 <=> (k.present /\ k.val = apiKey)
           /\ (~k.present \/ k.val = <<>>)
              => (gateCall.status = 403 /\ gateCall.detail = GateMissing)
           /\ (k.present /\ k.val # <<>> /\ k.val # apiKey)
              => (gateCall.status = 403 /\ gateCall.detail = GateInvalid)

\* the text between the first and the last non-blank character of str
Core(str) ==
    LET solid == {i \in 1..Len(str) : str[i] \notin Whitespace}
    IN  IF solid = {} THEN <<>>
        ELSE SubSeq(str, CHOOSE i \in solid : \A j \in solid : i <= j,
                         CHOOSE i \in solid : \A j \in solid : i >= j)

\* C8 amended: the gate lets k through exactly when k, its leading and
\* trailing whitespace removed, equals the configured key; an absent or
\* empty k is refused as missing, every other k as invalid.
C8_MatchAfterStrip ==
    gateCall.fn = "get_api_key"
    => LET k == gateCall.header
       IN  /\ gateCall.status = 200
              <=> (k.present /\ k.val # <<>> /\ Core(k.val) = apiKey)
           /\ (~k.present \/ k.val = <<>>)
              => (gateCall.status = 403 /\ gateCall.detail = GateMissing)
           /\ (k.present /\ k.val # <<>> /\ Core(k.val) # apiKey)
              => (gateCall.status = 403 /\ gateCall.detail = GateInvalid)

C8_Witness ==
    /\ gateCall.fn = "get_api_key"
    /\ gateCall.header.val = apiKey \o <<" ">>
    /\ gateCall.status = 200

\* the upper-case form of the letters of "bearer"
UpperOfBearer == <<"B", "E", "A", "R", "E", "R">>

\* w spells "bearer" in some mix of letter cases
SpellsBearer(w) ==
    /\ Len(w) = Len(Bearer)
    /\ \A k \in 1..Len(w) : w[k] \in {Bearer[k], UpperOfBearer[k]}

\* val is made of exactly two words, val[i1..j1] and val[i2..j2], with
\* blanks between them and nothing but blanks around them
TwoWordsAt(val, i1, j1, i2, j2) ==
    \A k \in 1..Len(val) :
        (val[k] \notin Whitespace) <=> (k \in i1..j1 \/ k \in i2..j2)

\* val has the shape "<bearer in any case> <token>", and token is its
\* second word
BearerWith(val, token) ==
    \E i1 \in 1..Len(val) : \E j1 \in i1..Len(val) :
        /\ SpellsBearer(SubSeq(val, i1, j1))
        /\ \E i2 \in (j1 + 2)..Len(val) : \E j2 \in i2..Len(val) :
              /\ TwoWordsAt(val, i1, j1, i2, j2)
              /\ token = SubSeq(val, i2, j2)

WellFormedAuth(h) ==
    /\ h.present
    /\ \E i1 \in 1..Len(h.val) : \E j1 \in i1..Len(h.val) :
          /\ SpellsBearer(SubSeq(h.val, i1, j1))
          /\ \E i2 \in (j1 + 2)..Len(h.val) : \E j2 \in i2..Len(h.val) :
                TwoWordsAt(h.val, i1, j1, i2, j2)

\* C9: Extract step: no Authorization header, or an empty one, is answered
\* 401 "missing header"; a header that is not exactly two blank-separated
\* parts whose first is "bearer" in any letter case is answered 401
\* "malformed header"; otherwise the second part is the extracted token.
C9_Extract ==
    extCall.fn = "get_token_from_header" =>
        /\ NotStr(extCall.header) =>
              extCall.status = 401 /\ extCall.detail = AuthRequired
        /\ (~NotStr(extCall.header) /\ ~WellFormedAuth(extCall.header)) =>
              extCall.status = 401 /\ extCall.detail = AuthMalformed
        /\ WellFormedAuth(extCall.header) =>
              /\ extCall.status = 200
              /\ BearerWith(extCall.header.val, extCall.token)

\* "Token abc" is refused as malformed
C9_Witness ==
    /\ extCall.fn = "get_token_from_header"
    /\ extCall.header = Sent(<<"T", "o", "k", "e", "n", " ", "a", "b", "c">>)
    /\ extCall.status = 401
    /\ extCall.detail = AuthMalformed

\* the token the Extract step handed on has been looked at by GET /me
Extracted == resp.route = "GET /me" /\ WellFormedAuth(resp.header)

\* some row of the users table has this username
KnownUser(name) == \E i \in DOMAIN users : users[i].username = name

Refused401(detail) ==
    resp.status = 401 /\ resp.detail = detail /\ ~resp.handled

\* C10: Verify and Resolve steps: a request whose extracted token the token
\* service reports invalid, whose verified claims have no subject, or whose
\* subject matches no user of the store is answered 401 and never reaches
\* the handler.
C10_VerifyResolve ==
    Extracted =>
        /\ ~verify_token(resp.token, now).some =>
              Refused401("Invalid or expired JWT token")
        /\ (verify_token(resp.token, now).some
            /\ ~verify_token(resp.token, now).payload.has_sub) =>
              Refused401("Invalid token payload")
        /\ (verify_token(resp.token, now).some
            /\ verify_token(resp.token, now).payload.has_sub
            /\ ~KnownUser(verify_token(resp.token, now).payload.sub)) =>
              Refused401("User not found")

\* a valid token for bob is presented while alice is the only user
C10_Witness ==
    /\ Extracted
    /\ verify_token(resp.token, now).some
    /\ verify_token(resp.token, now).payload.has_sub
    /\ verify_token(resp.token, now).payload.sub = "bob"
    /\ KnownUser("alice")
    /\ ~KnownUser("bob")
    /\ Refused401("User not found")

(***************************************************************************)
(* Authenticator claims over a changing users table (under SpecAuth)       *)
(***************************************************************************)
\* the claims the token service verifies in the token of the request
Verified == verify_token(resp.token, now)

\* the request carried a token that is valid now and names a subject
ValidFor(name) ==
    /\ WellFormedAuth(resp.header)
    /\ Verified.some
    /\ Verified.payload.has_sub
    /\ Verified.payload.sub = name

\* the row of the users table with this username
RowOf(name) ==
    CHOOSE r \in {users[i] : i \in DOMAIN users} : r.username = name

\* C11: Authorize step and success: with a valid token for subject s and a
\* row for s, the pipeline returns the identity of s when the row is active
\* and answers 403 "account deactivated" when it is not; it never returns an
\* identity that is inactive or whose username is not the token's subject.
C11_Authorize ==
    resp.route = "GET /me" =>
        /\ \A s \in Usernames :
              (ValidFor(s) /\ KnownUser(s)) =>
                  IF RowOf(s).is_active
                  THEN resp.status = 200 /\ resp.handled
                       /\ resp.user = RowOf(s)
                  ELSE resp.status = 403 /\ ~resp.handled
                       /\ resp.detail = "User account is deactivated"
        /\ resp.status = 200 =>
              /\ resp.user.is_active
              /\ ValidFor(resp.user.username)
              /\ KnownUser(resp.user.username)

\* alice, deactivated, presents her valid token
C11_Witness ==
    /\ resp.route = "GET /me"
    /\ ValidFor("alice")
    /\ KnownUser("alice")
    /\ ~RowOf("alice").is_active
    /\ resp.status = 403

\* C13: requireAdmin: for a request that passes the authenticator,
\* get_current_admin_user returns the identity when its admin flag is set
\* and answers 403 when it is not; it never returns a non-admin identity.
C13_RequireAdmin ==
    resp.route = "admin only" =>
        /\ \A s \in Usernames :
              (ValidFor(s) /\ KnownUser(s) /\ RowOf(s).is_active) =>
                  IF RowOf(s).is_admin
                  THEN resp.status = 200 /\ resp.handled
                       /\ resp.user = RowOf(s)
                  ELSE resp.status = 403 /\ ~resp.handled
                       /\ resp.detail = "Admin access required"
        /\ resp.status = 200 => resp.user.is_admin

\* alice, active and not an admin, asks for an admin-only route
C13_Witness ==
    /\ resp.route = "admin only"
    /\ ValidFor("alice")
    /\ KnownUser("alice")
    /\ RowOf("alice").is_active
    /\ ~RowOf("alice").is_admin
    /\ resp.status = 403
    /\ resp.detail = "Admin access required"

\* the required authenticator would let this request through
RequiredSucceeds == Authenticate(resp.header, tok, now, users).status = 200

\* C14: optionalAuth never propagates an error: it gives no identity
\* wherever the required authenticator would fail (missing or malformed
\* header, invalid or expired token, missing subject, unknown user,
\* deactivated account) and an identity only where it would succeed.
C14_OptionalMirrorsRequired ==
    resp.route = "optional" =>
        /\ resp.status = 200
        /\ resp.some <=> RequiredSucceeds

\* C15: nothing is remembered between requests: a request presenting a
\* still valid token is answered 401 when the token's user is no longer in
\* the store and 403 when the user is deactivated, whatever requests were
\* accepted with that token before.
C15_NoCaching ==
    resp.route \in {"GET /me", "admin only"} =>
        \A s \in Usernames :
            ValidFor(s) =>
                /\ ~KnownUser(s) => Refused401("User not found")
                /\ (KnownUser(s) /\ ~RowOf(s).is_active) =>
                      /\ resp.status = 403
                      /\ resp.detail = "User account is deactivated"
                      /\ ~resp.handled

\* a token that was accepted before is refused once its user's row is gone
C15_Witness ==
    /\ resp.route = "GET /me"
    /\ tokMeta.accepted
    /\ ValidFor("alice")
    /\ ~KnownUser("alice")
    /\ Refused401("User not found")

(***************************************************************************)
(* Protected prediction route claims (under SpecPredict)                   *)
(***************************************************************************)
\* the request's X-API-Key passes the gate
GateOk == resp.key.present /\ resp.key.val # <<>> /\ Core(resp.key.val) = apiKey

\* the request's token is valid now and names an active user of the store
AuthOk ==
    \E s \in Usernames : ValidFor(s) /\ KnownUser(s) /\ RowOf(s).is_active

GateDetails == {GateMissing, GateInvalid}

\* position of a component in the order of evaluation, 0 if it did not run
Position(order, name) ==
    IF \E i \in DOMAIN order : order[i] = name
    THEN CHOOSE i \in DOMAIN order : order[i] = name
    ELSE 0

\* C12 as stated: on POST /predict the gate is evaluated before the
\* authenticator, the handler runs only after both have succeeded, and a
\* request that fails both is answered with the gate's 403.
C12_GateFirst ==
    resp.route = "POST /predict" =>
        /\ resp.handled => (GateOk /\ AuthOk)
        /\ Position(resp.order, "authenticator") # 0 =>
              /\ Position(resp.order, "gate") # 0
              /\ Position(resp.order, "gate")
                    < Position(resp.order, "authenticator")
        /\ (~GateOk /\ ~AuthOk) =>
              resp.status = 403 /\ resp.detail \in GateDetails

\* C12 amended: on POST /predict the authenticator is evaluated before the
\* gate, the handler runs only after both have succeeded, and a request that
\* fails both is answered with the authenticator's 401 or 403.
C12_AuthenticatorFirst ==
    resp.route = "POST /predict" =>
        /\ resp.handled => (GateOk /\ AuthOk)
        /\ Position(resp.order, "gate") # 0 =>
              /\ Position(resp.order, "authenticator") # 0
              /\ Position(resp.order, "authenticator")
                    < Position(resp.order, "gate")
        /\ Position(resp.order, "handler") # 0 =>
              /\ Position(resp.order, "gate") # 0
              /\ Position(resp.order, "gate")
                    < Position(resp.order, "handler")
        /\ (~GateOk /\ ~AuthOk) =>
              /\ resp.status \in {401, 403}
              /\ resp.detail \notin GateDetails
              /\ Position(resp.order, "gate") = 0
              /\ ~resp.handled

\* a request with neither header is answered 401
C12_Witness ==
    /\ resp.route = "POST /predict"
    /\ ~resp.header.present
    /\ ~resp.key.present
    /\ resp.status = 401
    /\ resp.detail = AuthRequired

\* C16: a request to a protected endpoint that is refused by the API-key
\* gate or by a step of the authenticator leaves the users table, the
\* predictions table and the prediction cache as they were.
C16_RefusedWritesNothing ==
    [][(resp'.route = "POST /predict" /\ ~resp'.handled)
          => UNCHANGED <<users, predictions, cache>>]_vars

\* a known user with a valid token and a wrong API key is refused by the
\* gate, and the stores are still empty
C16_Witness ==
    /\ resp.route = "POST /predict"
    /\ resp.stage = "gate"
    /\ resp.status = 403
    /\ ~resp.handled
    /\ \E s \in Usernames : ValidFor(s) /\ KnownUser(s)
    /\ predictions = <<>>
    /\ cache = {}

(***************************************************************************)
(* Stored password claims                                                  *)
(***************************************************************************)
\* the passwords clients supply to register and to the profile update
ClientPasswords == {<<"s3cret!">>, <<"abc">>, <<"n3wpass!">>}

Updated(r, field) ==
    \E k \in DOMAIN r.updated_fields : r.updated_fields[k] = field

\* C17: in every state of the users table, after any register and profile
\* update requests, each row's password column holds an encoded hash made
\* by the password hasher of a password a client supplied, never the
\* password itself.
C17_OnlyHashStored ==
    \A i \in DOMAIN users :
        /\ Argon2WellFormed(users[i].hashed_password)
        /\ Argon2Secret(users[i].hashed_password) \in ClientPasswords
        /\ users[i].hashed_password \notin ClientPasswords

\* a profile update that changed the password has stored its hash
C17_Witness ==
    /\ resp.route = "PUT /me/update"
    /\ resp.status = 200
    /\ Updated(resp, "password")
    /\ KnownUser(resp.user.username)
    /\ RowOf(resp.user.username).hashed_password
          = hash_password(<<"n3wpass!">>, "saltB")
    /\ RowOf(resp.user.username).hashed_password # <<"n3wpass!">>

\* C18: a user's stored hash changes only in a profile update of that user
\* that was accepted with a new password: login, /me, logout, an
\* email-only update, a prediction request and every request of another
\* user leave it as it was.
C18_HashChangesOnlyOnPasswordChange ==
    [][\A s \in Usernames :
          (/\ KnownUser(s)
           /\ KnownUser(s)'
           /\ RowOf(s)'.hashed_password # RowOf(s).hashed_password)
              => /\ resp'.route = "PUT /me/update"
                 /\ resp'.status = 200
                 /\ Updated(resp', "password")
                 /\ resp'.user.username = s]_vars

\* an email-only update was accepted and the hash is the one made at
\* registration
C18_Witness ==
    /\ resp.route = "PUT /me/update"
    /\ resp.status = 200
    /\ resp.updated_fields = <<"email">>
    /\ KnownUser(resp.user.username)
    /\ RowOf(resp.user.username).email = "carol@x.org"
    /\ RowOf(resp.user.username).hashed_password
          = hash_password(<<"s3cret!">>, "saltA")

(***************************************************************************)
(* Failure response claims                                                 *)
(***************************************************************************)
Failure == resp.status >= 400

\* C19: every failure response has the body {error, status_code}, and no
\* failure response carries the name of an exception class.
C19_StructuredFailureBody ==
    Failure =>
        /\ resp.body.keys = {"error", "status_code"}
        /\ resp.body.status_code = resp.status
        /\ resp.body.type = ""

\* the handler raised something other than an HTTPException
Thrown == resp.exc \notin {"", "HTTPException"}

\* C20: an error thrown out of a handler that is not an HTTP outcome of
\* the handler's own making is answered with a 500 whose body has nothing
\* of the error's message.
C20_GenericServerError ==
    Thrown =>
        /\ resp.status = 500
        /\ resp.message \notin {resp.body.error, resp.body.message}
        /\ resp.body.type = ""

(***************************************************************************)
(* Account route claims                                                    *)
(***************************************************************************)
\* the password typed at login is the one the stored hash was made of
PasswordMatches(name) ==
    Argon2Secret(RowOf(name).hashed_password) = resp.form.password

LoginEntitled(name) ==
    KnownUser(name) /\ PasswordMatches(name) /\ RowOf(name).is_active

\* C21: POST /login answers 200 with a token whose subject is the username
\* exactly when the user exists, the password matches the stored hash and
\* the account is active; an unknown username or a wrong password gives
\* 401, the right password of a deactivated account 403, and no failing
\* login issues a token.
C21_Login ==
    resp.route = "POST /login" =>
        LET name == resp.form.username
        IN  /\ LoginEntitled(name)
                  <=> (/\ resp.status = 200
                       /\ resp.token.fmt = "jws"
                       /\ resp.token.claims.has_sub
                       /\ resp.token.claims.sub = name)
            /\ (~KnownUser(name) \/ ~PasswordMatches(name))
                  => resp.status = 401
            /\ (KnownUser(name) /\ PasswordMatches(name)
                  /\ ~RowOf(name).is_active) => resp.status = 403
            /\ resp.status # 200 => resp.token = NoToken

EmailUsed(email) == \E i \in DOMAIN users : users[i].email = email

\* the request POST /register was given can be accepted
Registrable(f) ==
    /\ ~KnownUser(f.username)
    /\ ~EmailUsed(f.email)
    /\ StrLen(f.password) >= MinPasswordLen

\* the row is the one a registration with these fields makes
RegisteredRow(row, f) ==
    /\ row.username = f.username
    /\ row.email = f.email
    /\ row.is_active
    /\ ~row.is_admin
    /\ Argon2WellFormed(row.hashed_password)
    /\ Argon2Secret(row.hashed_password) = f.password
    /\ row.hashed_password # f.password

ValidInput(car) == validate_input_data(car) = ""

\* C23: for valid input, predict_car_price returns the cached value and
\* does not ask the model when the cache holds an entry under the input's
\* key; otherwise it asks the model once and stores the result under that
\* key, so that the next call for the same input is served from the cache
\* with the same value.
C23_CacheThenModel ==
    [][(resp'.route = "predict_car_price" /\ ValidInput(resp'.car)) =>
          IF Cached(cache, resp'.car)
          THEN /\ resp'.exc = ""
               /\ resp'.price = CachedPrice(cache, resp'.car)
               /\ ~resp'.computed
               /\ cache' = cache
          ELSE resp'.exc = "" =>
                  /\ resp'.computed
                  /\ resp'.price = ModelPrice(resp'.car)
                  /\ Cached(cache', resp'.car)
                  /\ CachedPrice(cache', resp'.car) = resp'.price]_vars

\* a call was served from the cache
C23_Witness ==
    /\ resp.route = "predict_car_price"
    /\ resp.exc = ""
    /\ resp.looked
    /\ ~resp.computed
    /\ Cached(cache, resp.car)
    /\ resp.price = CachedPrice(cache, resp.car)
    /\ resp.price = 450000

\* predict_car_price() was reached, directly or through the route
ServiceReached(r) ==
    \/ r.route = "predict_car_price"
    \/ r.route = "POST /predict" /\ r.handled

\* C24: validation comes first: when a required field is missing, the year
\* is outside 1900..2030, km_driven is negative or seats is outside 2..10,
\* predict_car_price raises the validation error (400 through /predict)
\* and has not asked the cache, written it or asked the model, and no
\* prediction row is saved.
C24_ValidationFirst ==
    [][(ServiceReached(resp') /\ ~ValidInput(resp'.car)) =>
          /\ resp'.exc = "ValueError"
          /\ ~resp'.looked
          /\ ~resp'.computed
          /\ cache' = cache
          /\ predictions' = predictions
          /\ resp'.route = "POST /predict" => resp'.status = 400]_vars

\* a car with negative km_driven was refused by /predict while the cache
\* held an entry, and no row was saved
C24_Witness ==
    /\ resp.route = "POST /predict"
    /\ resp.handled
    /\ resp.car.km_driven < 0
    /\ resp.status = 400
    /\ resp.exc = "ValueError"
    /\ cache # {}
    /\ predictions = <<>>

\* the i-th car of the batch is served from the cache: an entry was there
\* before the call, or an earlier car of the batch left one
ServedFromCache(before, cars, results, i) ==
    \/ Cached(before, cars[i])
    \/ \E j \in 1..(i - 1) : cars[j] = cars[i] /\ results[j].some

\* C25: batch_predict returns a list as long as its input and in its
\* order: the i-th entry is the prediction for the i-th car, or None when
\* that car's prediction failed; a car that fails neither ends the batch
\* nor changes what the other cars get.
C25_BatchPredict ==
    [][resp'.route = "batch_predict" =>
          LET cars == resp'.cars
              results == resp'.results
          IN  /\ Len(results) = Len(cars)
              /\ \A i \in DOMAIN cars :
                    /\ ~ValidInput(cars[i]) => results[i] = NoPrice
                    /\ ValidInput(cars[i]) =>
                          results[i] \in {NoPrice,
                                          SomePrice(ModelPrice(cars[i]))}
                    /\ (ValidInput(cars[i])
                          /\ ServedFromCache(cache, cars, results, i))
                          => results[i].some
              /\ \A i, j \in DOMAIN cars :
                    (/\ ValidInput(cars[i])
                     /\ ValidInput(cars[j])
                     /\ ~Cached(cache, cars[i])
                     /\ ~Cached(cache, cars[j]))
                        => results[i].some = results[j].some]_vars

\* the first car of a batch failed and the second got its prediction
C25_Witness ==
    /\ resp.route = "batch_predict"
    /\ Len(resp.cars) = 2
    /\ Len(resp.results) = 2
    /\ resp.results[1] = NoPrice
    /\ resp.results[2] = SomePrice(ModelPrice(resp.cars[2]))
    /\ ValidInput(resp.cars[2])

\* how many entries of a list of labels are not 'Failed'
RECURSIVE NotFailed(_)
NotFailed(labels) ==
    IF labels = <<>> THEN 0
    ELSE (IF Head(labels).failed THEN 0 ELSE 1) + NotFailed(Tail(labels))

\* C26: in the answer of /predict/batch a car is reported 'Failed' exactly
\* when no row was saved for it: saved_ids has as many entries as
\* predictions has entries that are not 'Failed', also when the model
\* gives a price of 0.
C26_FailedIffNotSaved ==
    (resp.route = "POST /predict/batch" /\ resp.handled) =>
        Len(resp.saved_ids) = NotFailed(resp.labels)

(***************************************************************************)
(* Concurrent account requests                                             *)
(***************************************************************************)
UniqueUsers ==
    \A i, j \in DOMAIN users :
        i # j => /\ users[i].username # users[j].username
                 /\ users[i].email # users[j].email

\* C27: whatever the interleaving of concurrent register and profile
\* update requests, no two users share a username or an email, and a
\* register request that loses to a concurrent one for the same username
\* is answered 400 as a duplicate met in sequence is.
C27_ConcurrentUnique ==
    /\ UniqueUsers
    /\ (resp.route = "POST /register" /\ resp.status # 201)
          => resp.status = 400

(***************************************************************************)
(* Profile update and logout claims                                        *)
(***************************************************************************)
\* the handler of PUT /me/update ran for an authenticated user
ProfileHandled(r) == r.route = "PUT /me/update" /\ r.handled

EmailTaken(f, id) == f.email # "" /\ OtherWithEmail(users, f.email, id)

PasswordShort(f) ==
    f.password # <<>> /\ StrLen(f.password) < MinPasswordLen

\* C28: update_user_profile is all or nothing: a request refused with 400
\* (email used by another user, or new password under 6 characters)
\* leaves the users table as it was, also when its email was acceptable
\* and only its password too short; a request with neither field changes
\* nothing and succeeds.
C28_AllOrNothing ==
    [][ProfileHandled(resp') =>
          /\ (EmailTaken(resp'.form, resp'.user.id)
                \/ PasswordShort(resp'.form)) => resp'.status = 400
          /\ resp'.status = 400 => users' = users
          /\ (resp'.form.email = "" /\ resp'.form.password = <<>>)
                => /\ resp'.status = 200
                   /\ resp'.updated_fields = <<>>
                   /\ users' = users]_vars

\* a free email came with a password that is too short: the request was
\* refused and the stored email is not the new one
C28_Witness ==
    /\ ProfileHandled(resp)
    /\ resp.status = 400
    /\ resp.form.email = "carol@x.org"
    /\ resp.form.password = <<"abc">>
    /\ ~EmailUsed("carol@x.org")
    /\ KnownUser(resp.form.username)

AuthenticatedRoutes ==
    {"GET /me", "POST /logout", "PUT /me/update", "POST /predict"}

\* the request carried the token in the client's hands, still unexpired
\* and of a user who is in the table and active
PresentsLiveToken ==
    /\ resp.route \in AuthenticatedRoutes
    /\ WellFormedAuth(resp.header)
    /\ \E s \in Usernames :
          ValidFor(s) /\ KnownUser(s) /\ RowOf(s).is_active

\* C29: logout changes nothing on the server and revokes nothing: once a
\* token was used for a successful POST /logout, every later request that
\* presents it before its expiry still passes the authenticator.
C29_LogoutRevokesNothing ==
    /\ [][resp'.route = "POST /logout"
             => UNCHANGED <<users, predictions, cache, tok, pending>>]_vars
    /\ []((tokMeta.logged_out /\ PresentsLiveToken) => resp.handled)

\* the token was used to log out, and /me is answered with it afterwards
C29_Witness ==
    /\ tokMeta.logged_out
    /\ resp.route = "GET /me"
    /\ PresentsLiveToken
    /\ resp.status = 200

(***************************************************************************)
(* Stored prediction claims                                                *)
(***************************************************************************)
\* some row of the predictions table belongs to somebody else
OthersRow(id) ==
    \E i \in DOMAIN predictions : predictions[i].user_id # id

\* C30: GET /predictions/{id} shows the fields of a stored prediction only
\* to its owner or to an admin, and nothing of it to anybody else; GET
\* /predictions/history shows only rows whose owner is the authenticated
\* user.
C30_PredictionOwnership ==
    /\ resp.route = "GET /predictions/{prediction_id}" =>
          \A n \in DOMAIN resp.rows :
              /\ resp.handled
              /\ \E i \in DOMAIN predictions : predictions[i] = resp.rows[n]
              /\ resp.rows[n].user_id = resp.user.id \/ resp.user.is_admin
    /\ resp.route = "GET /predictions/history" =>
          \A n \in DOMAIN resp.rows :
              /\ resp.handled
              /\ resp.rows[n].user_id = resp.user.id

\* a user who is not an admin asked for somebody else's row and was shown
\* nothing of it
C30_Witness ==
    /\ resp.route = "GET /predictions/{prediction_id}"
    /\ resp.handled
    /\ ~resp.user.is_admin
    /\ OthersRow(resp.user.id)
    /\ resp.body.error = "Access denied"
    /\ resp.rows = <<>>

====
